------------------------------ MODULE Chunking ------------------------------
(***************************************************************************)
(* How GGML_OP_MUL_MAT_ID cuts the output of one expert into chunks        *)
(* (ggml-cpu.c).  The output has nr0 rows of the expert's matrix by nr1    *)
(* activations routed to the expert; nth workers share the chunks.         *)
(***************************************************************************)
EXTENDS Integers, FiniteSets

\* Mutant of CeilDiv: the quotient is rounded down.
FloorDiv(a, b) == a \div b

CeilDiv(a, b) == (a + b - 1) \div b

SmallerOf(a, b) == IF a <= b THEN a ELSE b

ChunkSize(nr0, nr1) == IF nr0 = 1 \/ nr1 = 1 THEN 64 ELSE 16

\* nchunk0 and nchunk1: chunks of 16 or 64, or one chunk per worker along the
\* longer side when those would be fewer than four per worker, or on a NUMA
\* machine.
Grid(nr0, nr1, nth, numa) ==
    LET n0 == CeilDiv(nr0, ChunkSize(nr0, nr1))
        n1 == CeilDiv(nr1, ChunkSize(nr0, nr1))
    IN  IF n0 * n1 >= 4 * nth /\ ~numa THEN <<n0, n1>>
        ELSE IF nr0 > nr1 THEN <<nth, 1>> ELSE <<1, nth>>

NChunks(nr0, nr1, nth, numa) ==
    LET g == Grid(nr0, nr1, nth, numa) IN g[1] * g[2]

\* The i-th of k spans of 0 .. n - 1: from ir_start up to, not with, ir_end.
\* The last spans may be empty, as the loop over them is.
Span(i, n, k) ==
    LET dr == CeilDiv(n, k)
    IN  (dr * i) .. (SmallerOf(dr * i + dr, n) - 1)

\* The output cells that chunk c computes.
Cells(nr0, nr1, nth, numa, c) ==
    LET g == Grid(nr0, nr1, nth, numa)
    IN  Span(c % g[1], nr0, g[1]) \X Span(c \div g[1], nr1, g[2])
\* The chunks have every output cell between them and none in common.
Partitioned(nr0, nr1, nth, numa) ==
    LET all == 0 .. NChunks(nr0, nr1, nth, numa) - 1
        Part(c) == Cells(nr0, nr1, nth, numa, c)
    IN  /\ UNION {Part(c) : c \in all} = (0 .. nr0 - 1) \X (0 .. nr1 - 1)
        /\ \A c, d \in all : c # d => Part(c) \cap Part(d) = {}
=============================================================================
