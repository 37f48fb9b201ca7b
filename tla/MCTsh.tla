------------------------------- MODULE MCTsh -------------------------------
(* Instances of the shell for TLC. *)
EXTENDS Tsh, TLC

\* Pids are only compared for equality.  Not used where liveness is checked.
Symm == Permutations(Pids)
============================================================================
