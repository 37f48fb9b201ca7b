------------------------------ MODULE MCFsecs ------------------------------
(* A tick costs more than RECORDTHRESH, and a step less than THRESHOLD.    *)
EXTENDS Fsecs

OffsetsDef == {0, 61}
WorksDef == {2, 3}
=============================================================================
