---------------------------- MODULE MCMdriverAny ----------------------------
(* An instance of the driver on any allocator for TLC. *)
EXTENDS MdriverAny

\* The bounds on the traces.
TraceLengths == <<4>>
=============================================================================
