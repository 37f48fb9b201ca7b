----------------------------- MODULE MCTransLab -----------------------------
(* Every shape up to 8 x 8 on its own; three shapes one after the other,   *)
(* as driver.py takes them.  The third, like 61 x 67, is divided by the    *)
(* blocks in neither direction.                                            *)
EXTENDS TransLab

FuncListDef == <<"transpose_submit", "trans">>
Shape(m, n) == [m |-> m, n |-> n]
Graded == <<Shape(4, 4), Shape(8, 8), Shape(5, 7)>>
GradedDef == {Graded}
SessionsDef == {<<Shape(m, n)>> : m \in Side, n \in Side} \cup GradedDef
=============================================================================
