------------------------------- MODULE MCCsim -------------------------------
(* Instances of the cache simulator for TLC. *)
EXTENDS Csim

\* Four blocks of set 0, the first at two addresses, and one block of set 1.
SomeAddrs == {0, 1, 4, 8, 12, 2}
=============================================================================
