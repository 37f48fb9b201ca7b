--------------------------- MODULE MCLruInclusion ---------------------------
(* An instance of the two caches for TLC. *)
EXTENDS LruInclusion

\* Even and odd blocks.
Parity(x) == x % 2
=============================================================================
