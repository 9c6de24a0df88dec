----------------------------- MODULE MCSshPool -----------------------------
(* Model values for SshPool. *)
EXTENDS SshPool, TLC

Symmetry == Permutations(Sessions) \cup Permutations(Clients) \cup Permutations(Callers)
=============================================================================
