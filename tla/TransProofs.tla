----------------------------- MODULE TransProofs -----------------------------
(***************************************************************************)
(* Proofs about Trans and TransLab: for every side of the arrays and every *)
(* block that divides it, every shape, every list of functions and every   *)
(* session.                                                                *)
(***************************************************************************)
EXTENDS TransLab, SequenceTheorems, TLAPS

----------------------------------------------------------------------------
(* Arithmetic.                                                             *)

\* A row and a column below Dim give a cell, whatever the width.
LEMMA CellBound ==
    ASSUME NEW r \in 0..(Dim - 1), NEW c \in 0..(Dim - 1), NEW w \in 0..Dim
    PROVE  r * w + c \in Cells
<1>1. Dim \in Nat
  BY DimAssumption
<1>2. r * w \in Nat /\ r * w <= (Dim - 1) * Dim
  <2>1. r * w <= (Dim - 1) * w
    BY <1>1
  <2>2. (Dim - 1) * w <= (Dim - 1) * Dim
    BY <1>1
  <2>3. r * w \in Nat
    BY <1>1
  <2> QED BY <1>1, <2>1, <2>2, <2>3
<1>3. (Dim - 1) * Dim = Dim * Dim - Dim
  BY <1>1
<1> QED BY <1>1, <1>2, <1>3 DEF Cells

\* Different cells of a matrix have different places in its array.
LEMMA CellsApart ==
    ASSUME NEW n \in Nat, NEW r \in 0..(n - 1), NEW s \in 0..(n - 1), NEW c \in Nat, NEW d \in Nat,
           c * n + r = d * n + s
    PROVE  c = d /\ r = s
<1>1. ASSUME c < d PROVE FALSE
  <2>1. (c + 1) * n <= d * n
    BY <1>1
  <2>2. (c + 1) * n = c * n + n
    OBVIOUS
  <2> QED BY <2>1, <2>2
<1>2. ASSUME d < c PROVE FALSE
  <2>1. (d + 1) * n <= c * n
    BY <1>2
  <2>2. (d + 1) * n = d * n + n
    OBVIOUS
  <2> QED BY <2>1, <2>2
<1>3. c = d
  BY <1>1, <1>2
<1> QED BY <1>3

\* Between two multiples of the block there is room for one.
LEMMA BlockFits ==
    ASSUME NEW p \in Nat, NEW q \in Nat, p * Block < q * Block
    PROVE  p * Block + Block <= q * Block /\ p * Block + Block = (p + 1) * Block
<1>1. Block \in Nat
  BY DimAssumption
<1>2. p < q
  <2>1. ASSUME q <= p PROVE FALSE
    <3>1. q * Block <= p * Block
      BY <1>1, <2>1
    <3>2. q * Block \in Int /\ p * Block \in Int
      BY <1>1
    <3> QED BY <3>1, <3>2
  <2> QED BY <2>1
<1>3. (p + 1) * Block <= q * Block
  BY <1>1, <1>2
<1>4. p * Block + Block = (p + 1) * Block
  BY <1>1
<1> QED BY <1>3, <1>4

----------------------------------------------------------------------------
(* The loops of the transpose functions.                                   *)

Multiple(x) == \E q \in Nat : x = q * Block

\* The assignment of A[r][c] has been made.
Written(r, c) ==
    IF fn = "trans" THEN r < i \/ (r = i /\ c < j)
    ELSE \/ r < i
         \/ /\ r < i + Block
            /\ \/ c < j
               \/ c < j + Block /\ (r < row \/ (r = row /\ c < col))

LoopTypeOK ==
    /\ M \in Side /\ N \in Side /\ fn \in Functions
    /\ A \in [Cells -> Int] /\ B \in [Cells -> Int]
    /\ fn = "trans" => i \in 0..(N - 1) /\ j \in 0..(M - 1)
    /\ fn = "transpose_submit" =>
          /\ i \in 0..(N - 1) /\ Multiple(i) /\ row \in i..(i + Block - 1)
          /\ j \in 0..(M - 1) /\ Multiple(j) /\ col \in j..(j + Block - 1)

\* What has been written stays: no other assignment of a block within the rows
\* meets its cell of B.
Fits == fn = "trans" \/ RowsFit
LoopInv ==
    /\ step \in {"idle", "loop", "done"}
    /\ step # "idle" => LoopTypeOK
    /\ step = "loop" /\ Fits =>
          \A r \in 0..(N - 1), c \in 0..(M - 1) :
             Written(r, c) => B[InB(c, r)] = A[InA(r, c)]
    /\ step = "done" /\ Fits => validate

\* The next assignment is within the arrays.
LEMMA LoopStays == ASSUME LoopInv PROVE StaysInArrays
<1> SUFFICES ASSUME step = "loop"
             PROVE  IF fn = "trans" THEN InA(i, j) \in Cells /\ InB(j, i) \in Cells
                    ELSE InA(row, col) \in Cells /\ InB(col, row) \in Cells
  BY DEF StaysInArrays
<1> USE DEF LoopInv, LoopTypeOK
<1>1. Dim \in Nat \ {0} /\ Block \in Nat \ {0} /\ M \in 1..Dim /\ N \in 1..Dim
  BY DimAssumption DEF Side
<1>4. M \in 0..Dim /\ N \in 0..Dim
  BY <1>1
<1>2. CASE fn = "trans"
  <2>1. i \in 0..(Dim - 1) /\ j \in 0..(Dim - 1)
    BY <1>1, <1>2
  <2>2. i * M + j \in Cells /\ j * N + i \in Cells
    BY <1>4, <2>1, CellBound
  <2> QED BY <1>2, <2>2 DEF InA, InB
<1>3. CASE fn = "transpose_submit"
  <2>1. ASSUME NEW x \in Nat, Multiple(x), x < Dim PROVE x + Block <= Dim
    <3>1. PICK q \in Nat : x = q * Block
      BY <2>1 DEF Multiple
    <3>2. PICK d \in Nat : Dim = d * Block
      BY <1>1, DimAssumption
    <3> QED BY <2>1, <3>1, <3>2, BlockFits
  <2>2. i + Block <= Dim /\ j + Block <= Dim
    BY <1>1, <1>3, <2>1
  <2>3. row \in 0..(Dim - 1) /\ col \in 0..(Dim - 1)
    BY <1>1, <1>3, <2>2
  <2>4. row * M + col \in Cells /\ col * N + row \in Cells
    BY <1>4, <2>3, CellBound
  <2> QED BY <1>3, <2>4 DEF InA, InB
<1> QED BY <1>2, <1>3 DEF Functions

\* A call starts the loops; nothing has been written.
LEMMA CallLoop ==
    ASSUME NEW m \in Side, NEW n \in Side, NEW g \in Functions, Call(m, n, g)
    PROVE  LoopInv'
<1>1. m \in Nat \ {0} /\ n \in Nat \ {0} /\ Block \in Nat \ {0} /\ m * n \in Nat
  BY DimAssumption DEF Side
<1>2. FilledA(m, n) \in [Cells -> Int] /\ FilledB(m, n) \in [Cells -> Int]
  BY DEF FilledA, FilledB, Cells
<1>3. Multiple(0)
  BY <1>1 DEF Multiple
<1>4. LoopTypeOK'
  BY <1>1, <1>2, <1>3 DEF LoopTypeOK, Call, Multiple
<1>5. \A r \in 0..(n - 1), c \in 0..(m - 1) : ~Written(r, c)'
  BY <1>1 DEF Written, Call
<1> QED BY <1>4, <1>5 DEF LoopInv, Call

\* An assignment changes the cell it is for and, if its row is one of the
\* shape's, no other.
LEMMA CopyWrites ==
    ASSUME LoopInv, step = "loop", NEW r \in Nat, NEW c \in Nat, InB(c, r) \in Cells,
           InA(r, c) \in Cells, Copy(r, c), UNCHANGED <<M, N, A>>
    PROVE  /\ B' \in [Cells -> Int]
           /\ B'[InB(c, r)] = A[InA(r, c)]
           /\ r < N => \A s \in 0..(N - 1), d \in Nat :
                          d # c \/ s # r => B'[InB(d, s)] = B[InB(d, s)]
<1>1. N \in Nat /\ B \in [Cells -> Int] /\ A \in [Cells -> Int]
  BY DimAssumption DEF LoopInv, LoopTypeOK, Side
<1>2. ASSUME r < N, NEW s \in 0..(N - 1), NEW d \in Nat, d # c \/ s # r
      PROVE  InB(d, s) # InB(c, r)
  BY <1>1, <1>2, CellsApart DEF InB
<1> QED BY <1>1, <1>2 DEF Copy, InA, InB

\* What was written stays, and the assignment of A[r][c] is written, too.
LEMMA CopyKeeps ==
    ASSUME LoopInv, step = "loop", Fits, NEW r \in 0..(N - 1), NEW c \in Nat,
           InB(c, r) \in Cells, InA(r, c) \in Cells, Copy(r, c), UNCHANGED <<M, N, A>>,
           NEW s \in 0..(N - 1), NEW d \in 0..(M - 1), Written(s, d) \/ (s = r /\ d = c)
    PROVE  B'[InB(d, s)] = A[InA(s, d)]
<1>1. M \in Nat /\ N \in Nat
  BY DimAssumption DEF LoopInv, LoopTypeOK, Side
<1>2. /\ B'[InB(c, r)] = A[InA(r, c)]
      /\ \A t \in 0..(N - 1), b \in Nat : b # c \/ t # r => B'[InB(b, t)] = B[InB(b, t)]
  BY <1>1, CopyWrites
<1>3. CASE s = r /\ d = c
  BY <1>2, <1>3
<1>4. CASE ~(s = r /\ d = c)
  <2>1. B'[InB(d, s)] = B[InB(d, s)]
    BY <1>1, <1>2, <1>4
  <2>2. B[InB(d, s)] = A[InA(s, d)]
    BY <1>4 DEF LoopInv
  <2> QED BY <2>1, <2>2
<1> QED BY <1>3, <1>4

\* Each assignment of trans keeps the invariant.
LEMMA NextScan == ASSUME LoopInv, Scan PROVE LoopInv'
<1>1. /\ step = "loop" /\ fn = "trans" /\ UNCHANGED <<M, N, fn, A>>
      /\ LoopTypeOK /\ Copy(i, j)
      /\ M \in Nat \ {0} /\ N \in Nat \ {0}
      /\ i \in 0..(N - 1) /\ j \in 0..(M - 1)
  BY DimAssumption DEF Scan, LoopInv, LoopTypeOK, Side
<1>2. InA(i, j) \in Cells /\ InB(j, i) \in Cells
  BY <1>1, LoopStays DEF StaysInArrays
<1>3. B' \in [Cells -> Int]
  <2>1. i \in Nat /\ j \in Nat
    BY <1>1
  <2> QED BY <1>1, <1>2, <2>1, CopyWrites
<1>4. ASSUME NEW s \in 0..(N - 1), NEW d \in 0..(M - 1), s < i \/ (s = i /\ d <= j)
      PROVE  B'[InB(d, s)] = A[InA(s, d)]
  <2>1. Written(s, d) \/ (s = i /\ d = j)
    BY <1>1, <1>4 DEF Written
  <2> QED BY <1>1, <1>2, <2>1, CopyKeeps DEF Fits
<1>5. /\ step' \in {"loop", "done"} /\ i' \in 0..(N - 1) /\ j' \in 0..(M - 1)
  BY <1>1 DEF Scan
<1>6. LoopTypeOK'
  BY <1>1, <1>3, <1>5 DEF LoopTypeOK
<1>7. ASSUME step' = "loop", NEW s \in 0..(N - 1), NEW d \in 0..(M - 1), Written(s, d)'
      PROVE  s < i \/ (s = i /\ d <= j)
  BY <1>1, <1>7 DEF Scan, Written
<1>8. ASSUME step' = "done", NEW s \in 0..(N - 1), NEW d \in 0..(M - 1)
      PROVE  s < i \/ (s = i /\ d <= j)
  BY <1>1, <1>8 DEF Scan
<1>9. \A s \in 0..(N - 1), d \in 0..(M - 1) :
         s < i \/ (s = i /\ d <= j) => B'[InB(d, s)] = A[InA(s, d)]
  BY <1>4
<1>10. step' = "loop" => \A s \in 0..(N - 1), d \in 0..(M - 1) :
                            Written(s, d)' => B'[InB(d, s)] = A[InA(s, d)]
  BY <1>7, <1>9
<1>11. step' = "done" => validate'
  <2>1. UNCHANGED <<A, M, N>>
    BY <1>1
  <2>2. ASSUME step' = "done", NEW s \in 0..(N - 1), NEW d \in 0..(M - 1)
        PROVE  B'[InB(d, s)] = A[InA(s, d)]
    BY <1>8, <1>9, <2>2
  <2> QED BY <2>1, <2>2 DEF validate, InA, InB
<1> QED BY <1>1, <1>5, <1>6, <1>10, <1>11 DEF LoopInv, InA, InB

\* So does each assignment of transpose_submit.
LEMMA NextSubmit == ASSUME LoopInv, Submit PROVE LoopInv'
<1>1. /\ step = "loop" /\ fn = "transpose_submit" /\ UNCHANGED <<M, N, fn, A>>
      /\ LoopTypeOK /\ Copy(row, col)
      /\ M \in Nat \ {0} /\ N \in Nat \ {0} /\ Block \in Nat \ {0}
      /\ i \in 0..(N - 1) /\ j \in 0..(M - 1)
      /\ row \in i..(i + Block - 1) /\ col \in j..(j + Block - 1)
      /\ row \in Nat /\ col \in Nat
  BY DimAssumption DEF Submit, LoopInv, LoopTypeOK, Side
<1>2. InA(row, col) \in Cells /\ InB(col, row) \in Cells
  BY <1>1, LoopStays DEF StaysInArrays
<1>3. B' \in [Cells -> Int]
  BY <1>1, <1>2, CopyWrites
<1>4. ASSUME RowsFit PROVE row \in 0..(N - 1) /\ i + Block <= N
  <2>1. PICK q \in Nat : i = q * Block
    BY <1>1 DEF LoopTypeOK, Multiple
  <2>2. PICK n \in Nat : N = n * Block
    BY <1>1, <1>4 DEF RowsFit
  <2>3. i + Block <= N
    BY <1>1, <2>1, <2>2, BlockFits
  <2> QED BY <1>1, <2>3
<1> DEFINE Upto(s, d) ==
              \/ s < i
              \/ /\ s < i + Block
                 /\ d < j \/ (d < j + Block /\ (s < row \/ (s = row /\ d <= col)))
<1>5. ASSUME RowsFit PROVE \A s \in 0..(N - 1), d \in 0..(M - 1) :
                              Upto(s, d) => B'[InB(d, s)] = A[InA(s, d)]
  <2>1. ASSUME NEW s \in 0..(N - 1), NEW d \in 0..(M - 1), Upto(s, d)
        PROVE  B'[InB(d, s)] = A[InA(s, d)]
    <3>1. Written(s, d) \/ (s = row /\ d = col)
      BY <1>1, <2>1 DEF Written
    <3> QED BY <1>1, <1>2, <1>4, <1>5, <3>1, CopyKeeps DEF Fits
  <2> QED BY <2>1
<1>6. /\ Multiple(i) /\ Multiple(j)
      /\ Multiple(i + Block) /\ Multiple(j + Block) /\ Multiple(0)
  <2>1. ASSUME NEW x, Multiple(x) PROVE Multiple(x + Block)
    <3>1. PICK q \in Nat : x = q * Block
      BY <2>1 DEF Multiple
    <3>2. x + Block = (q + 1) * Block
      BY <1>1, <3>1
    <3> QED BY <3>2 DEF Multiple
  <2>2. Multiple(i) /\ Multiple(j)
    BY <1>1 DEF LoopTypeOK
  <2>3. Multiple(0)
    BY <1>1 DEF Multiple
  <2> QED BY <2>1, <2>2, <2>3
<1>7. /\ step' \in {"loop", "done"}
      /\ i' \in 0..(N - 1) /\ Multiple(i') /\ row' \in i'..(i' + Block - 1)
      /\ j' \in 0..(M - 1) /\ Multiple(j') /\ col' \in j'..(j' + Block - 1)
  BY <1>1, <1>6 DEF Submit
<1>8. LoopTypeOK'
  BY <1>1, <1>3, <1>7 DEF LoopTypeOK, Multiple
<1>9. ASSUME step' = "loop", NEW s \in 0..(N - 1), NEW d \in 0..(M - 1), Written(s, d)'
      PROVE  Upto(s, d)
  BY <1>1, <1>9 DEF Submit, Written
<1>10. ASSUME step' = "done", NEW s \in 0..(N - 1), NEW d \in 0..(M - 1)
       PROVE  Upto(s, d)
  BY <1>1, <1>10 DEF Submit
<1> HIDE DEF Upto
<1>11. RowsFit /\ step' = "loop" => \A s \in 0..(N - 1), d \in 0..(M - 1) :
                                       Written(s, d)' => B'[InB(d, s)] = A[InA(s, d)]
  BY <1>5, <1>9
<1>12. RowsFit /\ step' = "done" => validate'
  BY <1>1, <1>5, <1>10 DEF validate, InA, InB
<1> QED BY <1>1, <1>7, <1>8, <1>11, <1>12 DEF LoopInv, InA, InB, Fits, RowsFit

\* Only tracegen touches the matrices.
LEMMA LabSteps ==
    ASSUME [Next]_vars
    PROVE  \/ UNCHANGED transVars
           \/ pc = "eval" /\ f \in DOMAIN func_list
              /\ Call(session[k].m, session[k].n, func_list[f])
           \/ Submit \/ Scan
BY DEF Next, vars, Start, Tracegen, Loop, TransNext, Validate, Filter, Csim, Collect, Summary,
       sigalrm_handler, Orphan, OrphanTraces, OrphanReads, OrphanOpens, OrphanPrints, OrphanEnds

----------------------------------------------------------------------------
(* The evaluation.                                                         *)

\* What may be in a file; what a test-trans prints; what it leaves behind.
Contents == SUBSET (Nat \X Nat)
Reports == [correct : {0, 1}, misses : Contents]
Orphans == [does : {"trace", "count", "print"}, f : DOMAIN func_list, of : Contents]
Children == {"tracegen", "filter", "csim", "collect"}

LabTypeOK ==
    /\ session \in Sessions
    /\ k \in 0..Len(session)
    /\ pc \in {"off", "eval"} \cup Children
    /\ pc # "off" => k # 0
    /\ f \in 1..(Len(func_list) + 1)
    /\ pc \in Children => f \in DOMAIN func_list
    /\ results \in [funcid : Nat, correct : {0, 1}, misses : Contents]
    /\ printed \in Seq(Reports)
    /\ Len(printed) = IF pc = "off" THEN k ELSE k - 1
    /\ trace_tmp \in Contents /\ trace_f \in [DOMAIN func_list -> Contents]
    /\ csim_results \in Contents
    /\ orphans \subseteq Orphans

\* An element of a sequence.
LEMMA ElementType ==
    ASSUME NEW S, NEW s \in Seq(S), NEW n \in 1..Len(s) PROVE s[n] \in S
OBVIOUS

\* The list of functions and the shapes of the session are sequences.
LEMMA Lists ==
    ASSUME session \in Sessions
    PROVE  /\ func_list \in Seq(Functions) /\ Len(func_list) \in Nat
           /\ DOMAIN func_list = 1..Len(func_list)
           /\ session \in Seq([m : Side, n : Side]) /\ Len(session) \in Nat
<1>1. func_list \in Seq(Functions)
  BY TransLabAssumption
<1>2. session \in Seq([m : Side, n : Side])
  BY TransLabAssumption
<1>3. Len(func_list) \in Nat /\ DOMAIN func_list = 1..Len(func_list)
  BY <1>1
<1>4. Len(session) \in Nat
  BY <1>2
<1> QED BY <1>1, <1>2, <1>3, <1>4

\* The evaluation starts well typed,
LEMMA InitLabType == ASSUME Init PROVE LabTypeOK /\ LoopInv
<1>1. LabTypeOK
  BY Lists
  DEF Init, LabTypeOK, FirstResults, Contents, Orphans, Old, INT_MAX, Nobody, Children, Reports
<1> QED BY <1>1 DEF Init, LoopInv

\* and every step keeps it so.
LEMMA NextLabType == ASSUME LabTypeOK, [Next]_vars PROVE LabTypeOK'
<1> USE DEF LabTypeOK
<1>0. /\ Len(func_list) \in Nat /\ DOMAIN func_list = 1..Len(func_list)
      /\ Len(session) \in Nat
      /\ Len(printed) \in Nat /\ k \in Nat
  BY Lists
<1>a. ASSUME NEW correct \in {0, 1}, NEW misses \in Contents, PrintResults(correct, misses)
      PROVE  printed' \in Seq(Reports) /\ Len(printed') = Len(printed) + 1
  BY <1>a DEF PrintResults, Reports
<1>b. /\ FirstResults \in [funcid : Nat, correct : {0, 1}, misses : Contents]
      /\ {<<k, f>>} \in Contents
  <2>1. INT_MAX \in Contents
    BY DEF INT_MAX, Contents
  <2>2. {<<k, f>>} \in Contents
    BY <1>0, SMTT(30) DEF Contents
  <2>3. FirstResults \in [funcid : Nat, correct : {0, 1}, misses : Contents]
    BY <2>1 DEF FirstResults, Nobody
  <2> QED BY <2>2, <2>3
<1>1. ASSUME Start PROVE LabTypeOK'
  BY <1>0, <1>b, <1>1 DEF Start, files, Children
<1>2. ASSUME Tracegen PROVE LabTypeOK'
  <2>1. results' \in [funcid : Nat, correct : {0, 1}, misses : Contents]
    BY <1>0, <1>2, SMTT(30) DEF Tracegen
  <2>2. CASE pc' = "tracegen" /\ f' = f
    BY <1>0, <1>b, <1>2, <2>1, <2>2 DEF Tracegen, Children
  <2>3. CASE pc' = pc /\ f' = f + 1
    BY <1>0, <1>b, <1>2, <2>1, <2>3, SMTT(30) DEF Tracegen, Children
  <2> QED BY <1>2, <2>2, <2>3 DEF Tracegen
<1>3. ASSUME Loop PROVE LabTypeOK'
  BY <1>3 DEF Loop, labVars, files
<1>4. ASSUME Validate PROVE LabTypeOK'
  <2>2. CASE pc' = "filter" /\ f' = f
    BY <1>0, <1>4, <2>2 DEF Validate, files, Children
  <2>3. CASE pc' = "eval" /\ f' = f + 1
    BY <1>0, <1>4, <2>3 DEF Validate, files, Children
  <2> QED BY <1>4, <2>2, <2>3 DEF Validate
<1>5. ASSUME Filter PROVE LabTypeOK'
  BY <1>0, <1>5 DEF Filter, Children
<1>6. ASSUME Csim PROVE LabTypeOK'
  BY <1>0, <1>6 DEF Csim, Children
<1>7. ASSUME Collect PROVE LabTypeOK'
  BY <1>0, <1>7, SMTT(40) DEF Collect, files, Children
<1>8. ASSUME Summary PROVE LabTypeOK'
  <2>1. Zero \in Contents
    BY DEF Zero, Contents
  <2>2. printed' \in Seq(Reports) /\ Len(printed') = Len(printed) + 1
    BY <1>a, <1>8, <2>1 DEF Summary
  <2> QED BY <1>0, <1>8, <2>2 DEF Summary, files, Children
<1>9. ASSUME sigalrm_handler PROVE LabTypeOK'
  <2>1. Zero \in Contents
    BY DEF Zero, Contents
  <2>2. printed' \in Seq(Reports) /\ Len(printed') = Len(printed) + 1
    BY <1>a, <1>9, <2>1 DEF sigalrm_handler
  <2>3. Child \subseteq Orphans
    <3>1. pc \in Children => f \in DOMAIN func_list /\ trace_f[f] \in Contents
      OBVIOUS
    <3>2. CASE pc = "tracegen"
      BY <1>b, <3>1, <3>2 DEF Child, Children, Orphans
    <3>3. CASE pc = "csim"
      BY <3>1, <3>3 DEF Child, Children, Orphans
    <3> QED BY <3>2, <3>3 DEF Child
  <2> QED BY <1>0, <1>9, <2>2, <2>3 DEF sigalrm_handler, files, Children
<1>10. ASSUME Orphan PROVE LabTypeOK'
  <2>1. PICK o \in orphans :
           /\ trace_tmp' \in {trace_tmp, trace_tmp \cup o.of}
           /\ csim_results' \in {csim_results, {}, o.of}
           /\ orphans' \subseteq orphans \cup {[o EXCEPT !.of = @ \cup trace_f[o.f]],
                                             [o EXCEPT !.does = "print"]}
           /\ UNCHANGED <<session, k, pc, f, results, printed, trace_f>>
    BY <1>10 DEF Orphan, OrphanTraces, OrphanReads, OrphanOpens, OrphanPrints, OrphanEnds, files
  <2>2. o \in Orphans /\ o.of \in Contents /\ trace_f[o.f] \in Contents
    BY <2>1 DEF Orphans
  <2>3. o.of \cup trace_f[o.f] \in Contents /\ trace_tmp \cup o.of \in Contents /\ {} \in Contents
    BY <2>2 DEF Contents
  <2>4. [o EXCEPT !.of = @ \cup trace_f[o.f]] \in Orphans /\ [o EXCEPT !.does = "print"] \in Orphans
    BY <2>2, <2>3 DEF Orphans
  <2>5. trace_tmp' \in Contents /\ csim_results' \in Contents
    BY <2>1, <2>2, <2>3
  <2>6. orphans' \subseteq Orphans
    BY <2>1, <2>4
  <2> QED BY <2>1, <2>5, <2>6
<1>11. CASE UNCHANGED vars
  BY <1>11 DEF vars, labVars, files
<1> QED
  BY <1>1, <1>2, <1>3, <1>4, <1>5, <1>6, <1>7, <1>8, <1>9, <1>10, <1>11 DEF Next

\* The loops keep their invariant under every step of the evaluation.
LEMMA NextLoopInv == ASSUME LabTypeOK, LoopInv, [Next]_vars PROVE LoopInv'
<1>1. CASE UNCHANGED transVars
  BY <1>1 DEF transVars, LoopInv, LoopTypeOK, Multiple, Fits, RowsFit, Written, validate, InA, InB
<1>2. ASSUME pc = "eval", f \in DOMAIN func_list,
             Call(session[k].m, session[k].n, func_list[f])
      PROVE  LoopInv'
  <2>1. func_list[f] \in Functions
    BY <1>2, TransLabAssumption
  <2>2. session[k] \in [m : Side, n : Side]
    <3>1. k \in 1..Len(session)
      BY <1>2, Lists DEF LabTypeOK
    <3> QED BY <3>1, Lists, ElementType DEF LabTypeOK
  <2> QED BY <1>2, <2>1, <2>2, CallLoop
<1> QED BY <1>1, <1>2, NextScan, NextSubmit, LabSteps

LEMMA LabInvariance == Spec => [](LabTypeOK /\ LoopInv)
BY InitLabType, NextLabType, NextLoopInv, PTL DEF Spec

\* Every cell that transpose_submit or trans touches is inside the arrays,
\* although the blocks run over the last row and column of a shape.
THEOREM ArraysSuffice == Spec => []StaysInArrays
BY LabInvariance, LoopStays, PTL

\* trans transposes every shape, and transpose_submit every shape whose rows
\* its blocks divide: what a block writes past the last column is overwritten
\* by nobody and overwrites nothing.
THEOREM Transposes == Spec => []TransposedWhenRowsFit
<1>1. LoopInv => TransposedWhenRowsFit
  BY DEF LoopInv, TransposedWhenRowsFit, Fits
<1> QED BY LabInvariance, <1>1, PTL

----------------------------------------------------------------------------
(* What test-trans prints of the submission.  eval_perf remembers one      *)
(* funcid: the driver looks for one function with the description of the   *)
(* submission, and the theorems are about lists with one.                  *)

OneSubmission == \A x, y \in Submissions : x = y

\* eval_perf has started the function x, or has found it correct.
Reached(x) == x < f \/ (x = f /\ pc \in Children)
Judged(x) == x < f \/ (x = f /\ pc \in {"csim", "collect"})

\* What is known of the run of the submission is what happened in it.
ValidSoFar == valid \subseteq (1..k) \X DOMAIN func_list
ResultsTrack ==
    pc # "off" => \A x \in Submissions :
        /\ results.funcid = IF Reached(x) THEN x ELSE Nobody
        /\ results.correct = 1 => Judged(x)
        /\ <<k, x>> \in valid <=> results.correct = 1 \/ (pc = "filter" /\ f = x)

\* The files hold what this test-trans has put there, unless an orphan has
\* written to them while it was to read them.
FilesOwn ==
    pc # "off" =>
        /\ <<k, f>> \notin disturbed =>
              /\ pc \in {"tracegen", "filter"} => trace_tmp = {<<k, f>>}
              /\ pc = "csim" => trace_f[f] = {<<k, f>>}
              /\ pc = "collect" => csim_results = {<<k, f>>} \/ <<k, f>> \in simFailed
        /\ \A x \in Submissions :
              results.correct = 1 /\ x < f /\ <<k, x>> \notin simFailed \cup disturbed =>
                  results.misses = {<<k, x>>}

EvalInv == ValidSoFar /\ ResultsTrack /\ FilesOwn

\* Summary and sigalrm_handler print one report, after those there are.
LEMMA Printing ==
    ASSUME LabTypeOK, NEW correct, NEW misses, PrintResults(correct, misses), pc # "off"
    PROVE  /\ DOMAIN printed = 1..(k - 1) /\ DOMAIN printed' = 1..k
           /\ printed'[k] = [correct |-> correct, misses |-> misses]
           /\ \A n \in 1..(k - 1) : printed'[n] = printed[n]
           /\ k \in Nat \ {0}
<1>1. /\ printed \in Seq(Reports) /\ Len(printed) = k - 1 /\ k \in Nat \ {0}
      /\ printed' = Append(printed, [correct |-> correct, misses |-> misses])
  BY Lists DEF LabTypeOK, PrintResults
<1>2. printed' \in Seq(Reports \cup {[correct |-> correct, misses |-> misses]})
  BY <1>1
<1> QED BY <1>1, <1>2

\* What an orphan writes it writes to files that nobody is to read just then,
\* or the run that is to read them is disturbed.
LEMMA OrphanKeeps ==
    ASSUME Orphan
    PROVE  /\ UNCHANGED <<session, k, pc, f, results, printed, trace_f, valid, simFailed>>
           /\ disturbed \subseteq disturbed'
           /\ <<k, f>> \notin disturbed' =>
                  /\ pc \in {"tracegen", "filter"} => trace_tmp' = trace_tmp
                  /\ pc = "collect" => csim_results' = csim_results
<1>1. CASE OrphanTraces
  BY <1>1 DEF OrphanTraces, Disturbs
<1>2. CASE OrphanReads \/ OrphanEnds
  BY <1>2 DEF OrphanReads, OrphanEnds, files, ghosts
<1>3. CASE OrphanOpens
  BY <1>3 DEF OrphanOpens, Disturbs
<1>4. CASE OrphanPrints
  BY <1>4 DEF OrphanPrints, Disturbs
<1> QED BY <1>1, <1>2, <1>3, <1>4 DEF Orphan

\* No step takes a failure or a disturbance back.
LEMMA FaultsStay ==
    ASSUME [Next]_vars PROVE simFailed \cup disturbed \subseteq simFailed' \cup disturbed'
BY OrphanKeeps DEF Next, vars, labVars, ghosts, Start, Tracegen, Loop, Validate, Filter, Csim,
   Collect, Summary, sigalrm_handler

\* What is known to transpose is of a run that has begun.
LEMMA NextValidSoFar == ASSUME LabTypeOK, ValidSoFar, [Next]_vars PROVE ValidSoFar'
<1> USE DEF LabTypeOK, ValidSoFar, ghosts
<1>1. k \in Nat
  BY Lists
<1>2. CASE Start
  BY <1>1, <1>2 DEF Start
<1>3. CASE Validate
  BY <1>1, <1>3 DEF Validate, Children
<1>4. CASE UNCHANGED <<k, valid>>
  BY <1>4
<1> QED BY <1>2, <1>3, <1>4, OrphanKeeps
        DEF Next, vars, labVars, ghosts, Tracegen, Loop, Filter, Csim, Collect, Summary,
            sigalrm_handler

\* eval_perf tracks the submission.
LEMMA NextResultsTrack ==
    ASSUME OneSubmission, LabTypeOK, ValidSoFar, ResultsTrack, [Next]_vars
    PROVE  ResultsTrack'
<1> USE DEF LabTypeOK, Reached, Judged, ghosts
<1>0. /\ k \in Nat /\ DOMAIN func_list = 1..Len(func_list) /\ Len(func_list) \in Nat
      /\ \A x \in Submissions : x \in DOMAIN func_list /\ x \in Nat \ {0}
      /\ f \in Nat \ {0}
  BY Lists DEF Submissions
<1> SUFFICES ASSUME pc' # "off", NEW x \in Submissions
             PROVE  /\ results'.funcid = IF Reached(x)' THEN x ELSE Nobody
                    /\ results'.correct = 1 => Judged(x)'
                    /\ <<k', x>> \in valid' <=> results'.correct = 1 \/ (pc' = "filter" /\ f' = x)
  BY DEF ResultsTrack
<1>1. CASE Start
  BY <1>0, <1>1 DEF Start, FirstResults, Nobody, Children, ValidSoFar
<1>2. CASE pc # "off" /\ UNCHANGED <<k, pc, f, results, valid>>
  BY <1>2 DEF ResultsTrack
<1>3. CASE Tracegen
  <2>1. (IsSubmission <=> f = x) /\ pc = "eval"
    BY <1>0, <1>3 DEF Tracegen, IsSubmission, Submissions, OneSubmission
  <2>2. /\ results.funcid = IF x < f THEN x ELSE Nobody
        /\ results.correct = 1 => x < f
        /\ <<k, x>> \in valid <=> results.correct = 1
    BY <2>1 DEF ResultsTrack, Children
  <2>3. /\ results'.funcid = IF x = f THEN f ELSE results.funcid
        /\ results'.correct = results.correct
        /\ UNCHANGED <<k, valid>>
    BY <1>3, <2>1 DEF Tracegen
  <2>4. CASE pc' = "tracegen" /\ f' = f
    BY <1>0, <2>2, <2>3, <2>4 DEF Children
  <2>5. CASE pc' = "eval" /\ f' = f + 1
    BY <1>0, <2>2, <2>3, <2>5 DEF Children
  <2> QED BY <1>3, <2>1, <2>4, <2>5 DEF Tracegen
<1>4. CASE Validate
  <2>1. /\ results.funcid = IF x <= f THEN x ELSE Nobody
        /\ results.correct = 1 => x < f
        /\ <<k, x>> \in valid <=> results.correct = 1
    BY <1>0, <1>4 DEF Validate, ResultsTrack, Children
  <2>2. UNCHANGED <<k, results>>
    BY <1>4 DEF Validate
  <2>3. CASE valid' = valid \cup {<<k, f>>} /\ pc' = "filter" /\ f' = f
    BY <1>0, <2>1, <2>2, <2>3 DEF Children
  <2>4. CASE valid' = valid /\ pc' = "eval" /\ f' = f + 1
    BY <1>0, <2>1, <2>2, <2>4 DEF Children
  <2> QED BY <1>4, <2>3, <2>4 DEF Validate
<1>5. CASE Filter
  <2>1. /\ results.funcid = IF x <= f THEN x ELSE Nobody
        /\ results.correct = 1 => x < f
        /\ <<k, x>> \in valid <=> results.correct = 1 \/ f = x
    BY <1>0, <1>5 DEF Filter, ResultsTrack, Children
  <2>2. results.funcid = f <=> x = f
    <3>1. ASSUME results.funcid = f, x # f PROVE FALSE
      BY <1>0, <2>1, <3>1 DEF Nobody
    <3> QED BY <1>0, <2>1, <3>1
  <2>3. /\ results'.funcid = results.funcid
        /\ results'.correct = IF x = f THEN 1 ELSE results.correct
        /\ UNCHANGED <<k, f, valid>> /\ pc' = "csim"
    BY <1>5, <2>2 DEF Filter
  <2> QED BY <1>0, <2>1, <2>3 DEF Children
<1>6. CASE Csim
  BY <1>0, <1>6 DEF Csim, ResultsTrack, Children
<1>7. CASE Collect
  <2>1. /\ results.funcid = IF x <= f THEN x ELSE Nobody
        /\ results.correct = 1 => x <= f
        /\ <<k, x>> \in valid <=> results.correct = 1
    BY <1>0, <1>7 DEF Collect, ResultsTrack, Children
  <2>2. /\ results'.funcid = results.funcid /\ results'.correct = results.correct
        /\ UNCHANGED <<k, valid>> /\ pc' = "eval" /\ f' = f + 1
    BY <1>7 DEF Collect
  <2> QED BY <1>0, <2>1, <2>2 DEF Children
<1> QED
  BY <1>1, <1>2, <1>3, <1>4, <1>5, <1>6, <1>7, OrphanKeeps
  DEF Next, vars, labVars, ghosts, Loop, Summary, sigalrm_handler

\* Printed reports stay, and a new one says what was seen of the submission.
LEMMA NextCorrect ==
    ASSUME LabTypeOK, ValidSoFar, ResultsTrack, CorrectIsValidated, [Next]_vars
    PROVE  CorrectIsValidated'
<1> USE DEF LabTypeOK, ghosts
<1>0. k \in Nat /\ DOMAIN func_list = 1..Len(func_list) /\ Len(func_list) \in Nat
  BY Lists
<1>1. DOMAIN printed = IF pc = "off" THEN 1..k ELSE 1..(k - 1)
  BY <1>0
<1>2. CASE UNCHANGED <<printed, valid>>
  BY <1>2 DEF CorrectIsValidated, TimedOut
<1>3. CASE Validate
  <2>1. printed' = printed /\ \A n \in DOMAIN printed, x \in Submissions :
                                 <<n, x>> \in valid' <=> <<n, x>> \in valid
    BY <1>0, <1>1, <1>3 DEF Validate
  <2> QED BY <2>1 DEF CorrectIsValidated, TimedOut
<1>4. ASSUME NEW correct, NEW misses, PrintResults(correct, misses), pc # "off",
             valid' = valid,
             \A x \in Submissions : ~([correct |-> correct, misses |-> misses]
                                        = [correct |-> 0, misses |-> Zero]) =>
                                       (correct = 1 <=> <<k, x>> \in valid)
      PROVE  CorrectIsValidated'
  <2> SUFFICES ASSUME NEW n \in DOMAIN printed', NEW x \in Submissions, ~TimedOut(n)'
               PROVE  printed'[n].correct = 1 <=> <<n, x>> \in valid'
    BY DEF CorrectIsValidated
  <2>1. CASE n = k
    BY <1>4, <2>1, Printing DEF TimedOut
  <2>2. CASE n # k
    BY <1>0, <1>4, <2>2, Printing, SMTT(40) DEF TimedOut, CorrectIsValidated
  <2> QED BY <2>1, <2>2
<1>5. CASE sigalrm_handler
  BY <1>4, <1>5 DEF sigalrm_handler
<1>6. CASE Summary
  <2>1. /\ pc = "eval" /\ f \notin DOMAIN func_list /\ valid' = valid
        /\ \A x \in Submissions : x \in Nat \ {0} /\ Reached(x)
    BY <1>0, <1>6 DEF Summary, Submissions, Reached
  <2>2. CASE results.funcid = Nobody
    BY <1>4, <1>6, <2>1, <2>2 DEF Summary
  <2>3. CASE results.funcid # Nobody
    <3>1. PrintResults(results.correct, results.misses)
      BY <1>6, <2>3 DEF Summary
    <3>2. \A x \in Submissions : results.correct = 1 <=> <<k, x>> \in valid
      BY <2>1 DEF ResultsTrack
    <3> QED BY <1>4, <2>1, <3>1, <3>2
  <2> QED BY <2>2, <2>3
<1> QED BY <1>2, <1>3, <1>5, <1>6, OrphanKeeps
        DEF Next, vars, labVars, ghosts, Start, Tracegen, Loop, Filter, Csim, Collect

\* The files stay those of this test-trans.
LEMMA NextFilesOwn ==
    ASSUME OneSubmission, LabTypeOK, ResultsTrack, FilesOwn, [Next]_vars
    PROVE  FilesOwn'
<1> USE DEF LabTypeOK
<1>0. /\ DOMAIN func_list = 1..Len(func_list) /\ Len(func_list) \in Nat
      /\ \A x \in Submissions : x \in DOMAIN func_list /\ x \in Nat \ {0}
      /\ f \in Nat \ {0}
      /\ simFailed \cup disturbed \subseteq simFailed' \cup disturbed'
  BY Lists, FaultsStay DEF Submissions
<1> DEFINE Own(x) == <<k, x>> \notin simFailed \cup disturbed => results.misses = {<<k, x>>}
           Kept == \A x \in Submissions : results'.correct = 1 /\ x < f' => Own(x)'
<1>1. CASE Start
  BY <1>1 DEF Start, FirstResults, FilesOwn
<1>2. ASSUME pc # "off", k' = k, results'.misses = results.misses,
             \A x \in Submissions : results'.correct = 1 /\ x < f' => results.correct = 1 /\ x < f
      PROVE  Kept
  BY <1>0, <1>2 DEF FilesOwn
<1>3. CASE Tracegen
  <2>1. /\ pc = "eval" /\ f \in DOMAIN func_list /\ pc' \in {"eval", "tracegen"}
        /\ k' = k /\ trace_tmp' = {<<k, f>>}
        /\ results'.correct = results.correct /\ results'.misses = results.misses
        /\ f' \in {f, f + 1} /\ (pc' = "tracegen" => f' = f)
    BY <1>3 DEF Tracegen
  <2>2. \A x \in Submissions : results.correct = 1 => x < f
    BY <2>1 DEF ResultsTrack, Judged
  <2> QED BY <1>2, <2>1, <2>2 DEF FilesOwn
<1>4. CASE Validate
  <2>1. /\ pc = "tracegen" /\ pc' \in {"eval", "filter"}
        /\ UNCHANGED <<k, results, trace_tmp, disturbed>>
        /\ f' \in {f, f + 1} /\ (pc' = "filter" => f' = f)
    BY <1>4 DEF Validate, files
  <2>2. \A x \in Submissions : results.correct = 1 => x < f
    BY <2>1 DEF ResultsTrack, Judged
  <2>3. Kept
    BY <1>2, <2>1, <2>2
  <2> QED BY <2>1, <2>3 DEF FilesOwn
<1>5. CASE Filter
  <2>1. /\ pc = "filter" /\ pc' = "csim" /\ f \in DOMAIN func_list
        /\ UNCHANGED <<k, f, disturbed>>
        /\ trace_f'[f] = trace_tmp
        /\ results'.misses = results.misses
        /\ results'.correct # results.correct => results.funcid = f
    BY <1>5 DEF Filter, Children, ghosts
  <2>2. ASSUME NEW x \in Submissions, x < f PROVE results'.correct = results.correct
    <3>1. results.funcid = x
      BY <1>0, <2>1, <2>2 DEF ResultsTrack, Reached
    <3> QED BY <1>0, <2>1, <2>2, <3>1
  <2>3. Kept
    BY <1>2, <2>1, <2>2
  <2> QED BY <2>1, <2>3 DEF FilesOwn
<1>6. CASE Csim
  <2>1. /\ pc = "csim" /\ pc' = "collect"
        /\ UNCHANGED <<k, f, results, disturbed>>
        /\ csim_results' = trace_f[f] \/ <<k, f>> \in simFailed'
    BY <1>6 DEF Csim
  <2>2. Kept
    BY <1>2, <2>1
  <2> QED BY <2>1, <2>2 DEF FilesOwn
<1>7. CASE Collect
  <2>1. /\ pc = "collect" /\ pc' = "eval" /\ f' = f + 1
        /\ UNCHANGED <<k, simFailed, disturbed>>
        /\ results'.correct = results.correct
        /\ results'.misses = IF results.funcid = f THEN csim_results ELSE results.misses
    BY <1>7 DEF Collect, ghosts
  <2>2. ASSUME NEW x \in Submissions, results.correct = 1, x < f + 1 PROVE Own(x)'
    <3>0. x < f \/ x = f
      BY <1>0, <2>2
    <3>1. results.funcid = x
      BY <2>1, <3>0 DEF ResultsTrack, Reached, Children
    <3>2. CASE x = f
      BY <2>1, <2>2, <3>1, <3>2 DEF FilesOwn
    <3>3. CASE x # f
      BY <1>0, <2>1, <2>2, <3>0, <3>1, <3>3 DEF FilesOwn
    <3> QED BY <3>2, <3>3
  <2> QED BY <2>1, <2>2 DEF FilesOwn
<1>8. CASE Summary \/ sigalrm_handler
  BY <1>8 DEF Summary, sigalrm_handler, FilesOwn
<1>9. CASE Orphan
  <2>1. /\ UNCHANGED <<k, pc, f, results, trace_f, simFailed>>
        /\ disturbed \subseteq disturbed'
        /\ <<k, f>> \notin disturbed' =>
               /\ pc \in {"tracegen", "filter"} => trace_tmp' = trace_tmp
               /\ pc = "collect" => csim_results' = csim_results
    BY <1>9, OrphanKeeps
  <2> QED BY <2>1 DEF FilesOwn
<1>10. CASE UNCHANGED labVars
  BY <1>10 DEF labVars, files, ghosts, FilesOwn
<1> QED
  BY <1>1, <1>3, <1>4, <1>5, <1>6, <1>7, <1>8, <1>9, <1>10 DEF Next, vars, Loop

\* The counts printed so far are of their own run, and a new one is.
LEMMA NextCounts ==
    ASSUME OneSubmission, LabTypeOK, ResultsTrack, FilesOwn, CountsOwnUndisturbed, [Next]_vars
    PROVE  CountsOwnUndisturbed'
<1> USE DEF LabTypeOK
<1>0. /\ k \in Nat /\ DOMAIN func_list = 1..Len(func_list) /\ Len(func_list) \in Nat
      /\ simFailed \cup disturbed \subseteq simFailed' \cup disturbed'
  BY Lists, FaultsStay
<1>1. CASE UNCHANGED printed
  BY <1>0, <1>1 DEF CountsOwnUndisturbed
<1>2. ASSUME NEW correct, NEW misses, PrintResults(correct, misses), pc # "off",
             \A x \in Submissions :
                 correct = 1 /\ <<k, x>> \notin simFailed \cup disturbed => misses = {<<k, x>>}
      PROVE  CountsOwnUndisturbed'
  <2>1. /\ DOMAIN printed = 1..(k - 1) /\ DOMAIN printed' = 1..k
        /\ printed'[k] = [correct |-> correct, misses |-> misses]
        /\ \A n \in 1..(k - 1) : printed'[n] = printed[n]
    BY <1>2, Printing
  <2> SUFFICES ASSUME NEW n \in DOMAIN printed', NEW x \in Submissions,
                      printed'[n].correct = 1, <<n, x>> \notin simFailed' \cup disturbed'
               PROVE  printed'[n].misses = {<<n, x>>}
    BY DEF CountsOwnUndisturbed
  <2>2. <<n, x>> \notin simFailed \cup disturbed
    BY <1>0
  <2>3. CASE n = k
    BY <1>2, <2>1, <2>2, <2>3
  <2>4. CASE n # k
    <3>1. n \in DOMAIN printed /\ printed'[n] = printed[n]
      BY <1>0, <2>1, <2>4
    <3> QED BY <2>2, <3>1 DEF CountsOwnUndisturbed
  <2> QED BY <2>3, <2>4
<1>3. CASE sigalrm_handler
  BY <1>2, <1>3 DEF sigalrm_handler
<1>4. CASE Summary
  <2>1. pc = "eval" /\ f \notin DOMAIN func_list
    BY <1>4 DEF Summary
  <2>2. \A x \in Submissions : x \in DOMAIN func_list /\ x < f
    BY <1>0, <2>1 DEF Submissions
  <2>3. CASE results.funcid = Nobody
    BY <1>2, <1>4, <2>1, <2>3 DEF Summary
  <2>4. CASE results.funcid # Nobody
    <3>1. PrintResults(results.correct, results.misses)
      BY <1>4, <2>4 DEF Summary
    <3>2. \A x \in Submissions :
              results.correct = 1 /\ <<k, x>> \notin simFailed \cup disturbed =>
                  results.misses = {<<k, x>>}
      BY <2>1, <2>2 DEF FilesOwn
    <3> QED BY <1>2, <2>1, <3>1, <3>2
  <2> QED BY <2>3, <2>4
<1> QED BY <1>1, <1>3, <1>4, OrphanKeeps
        DEF Next, vars, labVars, Start, Tracegen, Loop, Validate, Filter, Csim, Collect

\* The evaluation starts with nothing printed and no orphan.
LEMMA InitEval == ASSUME Init PROVE EvalInv /\ CorrectIsValidated /\ CountsOwnUndisturbed
BY DEF Init, EvalInv, ValidSoFar, ResultsTrack, FilesOwn, CorrectIsValidated, CountsOwnUndisturbed

\* The inductive invariant of the evaluation.
LEMMA Evaluation ==
    ASSUME OneSubmission
    PROVE  Spec => [](LabTypeOK /\ EvalInv /\ CorrectIsValidated /\ CountsOwnUndisturbed)
<1> DEFINE Inv == LabTypeOK /\ EvalInv /\ CorrectIsValidated /\ CountsOwnUndisturbed
<1>1. Init => Inv
  BY InitLabType, InitEval
<1>2. Inv /\ [Next]_vars => Inv'
  BY NextLabType, NextValidSoFar, NextResultsTrack, NextFilesOwn, NextCorrect, NextCounts,
     OneSubmission DEF EvalInv
<1> QED BY <1>1, <1>2, PTL DEF Spec

\* A test-trans that prints its submission correct has seen it transpose the
\* shape, in that run; one that prints it wrong, and was not cut off by
\* alarm(120), has not.
THEOREM CorrectMeansValidated ==
    ASSUME OneSubmission PROVE Spec => []CorrectIsValidated
BY Evaluation, PTL

\* The misses printed for a correct submission are those of its own trace in
\* this run, whatever orphans earlier alarms have left running, unless csim-ref
\* failed in this run or an orphan wrote to a file between its writing and its
\* reading by this run (eval_perf, test-trans.c:63-158).
THEOREM CountsOfTheRun ==
    ASSUME OneSubmission PROVE Spec => []CountsOwnUndisturbed
BY Evaluation, PTL
=============================================================================
