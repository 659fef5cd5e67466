----------------------------- MODULE ChunkingMC -----------------------------
(***************************************************************************)
(* Every shape of at most MaxNr0 rows by MaxNr1 activations with up to     *)
(* MaxNth workers is visited, one more worker at a time.                   *)
(***************************************************************************)
EXTENDS Chunking

CONSTANTS MaxNr0, MaxNr1, MaxNth

VARIABLE shape

ShapeInit ==
    shape \in [nr0 : 1 .. MaxNr0, nr1 : 1 .. MaxNr1, nth : {1}, numa : BOOLEAN]

MoreWorkers == shape.nth < MaxNth /\ shape' = [shape EXCEPT !.nth = @ + 1]

ShapeSpec == ShapeInit /\ [][MoreWorkers]_shape

\* Every output cell of an expert belongs to exactly one chunk: none is left
\* with what the buffer held before, none is written by two workers at once,
\* and no chunk reaches outside the output, for all shapes around the
\* rounding of the divisions.
ChunksPartitionOutput == Partitioned(shape.nr0, shape.nr1, shape.nth, shape.numa)
=============================================================================
