------------------------- MODULE MCSessionLifecycle -------------------------
(* Model values for SessionLifecycle. *)
EXTENDS SessionLifecycle, TLC

Symmetry == Permutations(Handlers) \cup Permutations(Sessions)
                \cup Permutations(Timers)
=============================================================================
