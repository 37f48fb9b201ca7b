----------------------------- MODULE MCMdriverMM ----------------------------
(* An instance of the driver on mm.c for TLC. *)
EXTENDS MdriverMM

\* The bounds on the traces.
TraceLengths == <<5, 2>>
=============================================================================
