---------------------------- MODULE MCScratchpad ----------------------------
(* Model values for Scratchpad. *)
EXTENDS Scratchpad, TLC

\* For larger instances, without a liveness property only.
Symmetry == Permutations(Browsers)
=============================================================================
