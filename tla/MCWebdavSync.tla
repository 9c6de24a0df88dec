---------------------------- MODULE MCWebdavSync ----------------------------
(* Model values for WebdavSync. *)
EXTENDS WebdavSync, TLC

\* For runs without a liveness property only.
Symmetry == Permutations(Devices) \cup Permutations(Keys)
=============================================================================
