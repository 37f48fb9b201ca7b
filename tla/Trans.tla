-------------------------------- MODULE Trans --------------------------------
(***************************************************************************)
(* The transpose functions of trans.c and how tracegen.c runs one of them: *)
(* it fills A, calls the function and validates B against correctTrans.    *)
(*                                                                         *)
(* A and B are arrays of Dim * Dim ints (tracegen.c:28) that the functions *)
(* take as A[N][M] and B[M][N]: A[r][c] is the cell r*M + c, B[c][r] the   *)
(* cell c*N + r.  The blocks of transpose_submit go past the last row and  *)
(* the last column of a shape that they do not divide, and what they meet  *)
(* there is another cell of the same array.  Block is its 4.               *)
(*                                                                         *)
(* The numbers rand() gives are taken to be distinct; the rest of the two  *)
(* static arrays is 0.                                                     *)
(***************************************************************************)
EXTENDS Integers

CONSTANTS
    Dim,        \* the side of the arrays, MAXN (256)
    Block       \* the side of a block (4)

ASSUME DimAssumption ==
    /\ Dim \in Nat \ {0} /\ Block \in Nat \ {0}
    /\ \E k \in 0..Dim : Dim = k * Block

VARIABLES
    M, N,           \* the shape
    fn,             \* the function called
    A, B,
    i, j, row, col, \* its loops; trans uses the first two
    step            \* "idle", "loop" or "done"

transVars == <<M, N, fn, A, B, i, j, row, col, step>>

Side == 1..Dim
Cells == 0..(Dim * Dim - 1)
Functions == {"transpose_submit", "trans"}

InA(r, c) == r * M + c
InB(c, r) == c * N + r

----------------------------------------------------------------------------
\* The random numbers of the two matrices.
FilledA(m, n) == [x \in Cells |-> IF x < m * n THEN x + 1 ELSE 0]
FilledB(m, n) == [x \in Cells |-> IF x < m * n THEN -(x + 1) ELSE 0]

\* A function is called on fresh matrices (initMatrix).
Call(m, n, f) ==
    /\ M' = m /\ N' = n /\ fn' = f
    /\ A' = FilledA(m, n) /\ B' = FilledB(m, n)
    /\ i' = 0 /\ j' = 0 /\ row' = 0 /\ col' = 0
    /\ step' = "loop"

Copy(r, c) == B' = [B EXCEPT ![InB(c, r)] = A[InA(r, c)]]

\* Fault: a block has one row too many.
Submit_Row ==
    /\ step = "loop" /\ fn = "transpose_submit"
    /\ Copy(row, col)
    /\ \/ /\ col + 1 < j + Block
          /\ col' = col + 1
          /\ UNCHANGED <<i, j, row, step>>
       \/ /\ col + 1 >= j + Block /\ row + 1 <= i + Block
          /\ row' = row + 1 /\ col' = j
          /\ UNCHANGED <<i, j, step>>
       \/ /\ col + 1 >= j + Block /\ row + 1 > i + Block /\ j + Block < M
          /\ j' = j + Block /\ row' = i /\ col' = j + Block
          /\ UNCHANGED <<i, step>>
       \/ /\ col + 1 >= j + Block /\ row + 1 > i + Block /\ j + Block >= M
          /\ IF i + Block < N
             THEN i' = i + Block /\ j' = 0 /\ row' = i + Block /\ col' = 0 /\ UNCHANGED step
             ELSE step' = "done" /\ UNCHANGED <<i, j, row, col>>
    /\ UNCHANGED <<M, N, fn, A>>

\* One assignment of transpose_submit, and the loops around it.
Submit ==
    /\ step = "loop" /\ fn = "transpose_submit"
    /\ Copy(row, col)
    /\ \/ /\ col + 1 < j + Block
          /\ col' = col + 1
          /\ UNCHANGED <<i, j, row, step>>
       \/ /\ col + 1 >= j + Block /\ row + 1 < i + Block
          /\ row' = row + 1 /\ col' = j
          /\ UNCHANGED <<i, j, step>>
       \/ /\ col + 1 >= j + Block /\ row + 1 >= i + Block /\ j + Block < M
          /\ j' = j + Block /\ row' = i /\ col' = j + Block
          /\ UNCHANGED <<i, step>>
       \/ /\ col + 1 >= j + Block /\ row + 1 >= i + Block /\ j + Block >= M
          /\ IF i + Block < N
             THEN i' = i + Block /\ j' = 0 /\ row' = i + Block /\ col' = 0 /\ UNCHANGED step
             ELSE step' = "done" /\ UNCHANGED <<i, j, row, col>>
    /\ UNCHANGED <<M, N, fn, A>>

\* One assignment of trans.
Scan ==
    /\ step = "loop" /\ fn = "trans"
    /\ Copy(i, j)
    /\ \/ /\ j + 1 < M
          /\ j' = j + 1
          /\ UNCHANGED <<i, step>>
       \/ /\ j + 1 >= M /\ i + 1 < N
          /\ i' = i + 1 /\ j' = 0
          /\ UNCHANGED step
       \/ /\ j + 1 >= M /\ i + 1 >= N
          /\ step' = "done"
          /\ UNCHANGED <<i, j>>
    /\ UNCHANGED <<M, N, fn, A, row, col>>

\* validate compares B with what correctTrans makes of A.
validate == \A r \in 0..(N - 1), c \in 0..(M - 1) : B[InB(c, r)] = A[InA(r, c)]

----------------------------------------------------------------------------
(* One call, on any shape.                                                 *)

TransInit ==
    /\ M \in Side /\ N \in Side /\ fn \in Functions
    /\ A = FilledA(M, N) /\ B = FilledB(M, N)
    /\ i = 0 /\ j = 0 /\ row = 0 /\ col = 0
    /\ step = "loop"
TransNext == Submit \/ Scan
TransSpec == TransInit /\ [][TransNext]_transVars

----------------------------------------------------------------------------
(* Properties.                                                             *)

\* The cells the next assignment reads and writes are cells of A and B, for
\* every shape up to Dim x Dim: a block that runs over the last row or column
\* of the shape stays inside the arrays (tracegen.c:28).
StaysInArrays ==
    step = "loop" =>
        IF fn = "trans" THEN InA(i, j) \in Cells /\ InB(j, i) \in Cells
        ELSE InA(row, col) \in Cells /\ InB(col, row) \in Cells

\* B is the transpose of A, whatever the columns of the shape, when the blocks
\* fit its rows; trans transposes every shape.
RowsFit == \E k \in 0..N : N = k * Block
TransposedWhenRowsFit ==
    step = "done" /\ (fn = "trans" \/ RowsFit) => validate

\* "Matrix transpose B = A^T" (trans.c:2): the function of the submission
\* transposes every shape.
Transposed == step = "done" /\ fn = "transpose_submit" => validate
=============================================================================
