-------------------------- MODULE MCTerminalClient --------------------------
(* Model values for TerminalClient. *)
EXTENDS TerminalClient, TLC

\* For runs without a liveness property only.
Symmetry == Permutations(Sockets)
=============================================================================
