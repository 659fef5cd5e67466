----------------------------- MODULE ByteCount -----------------------------
(***************************************************************************)
(* Sizes of sets of expert blocks.  A block b has BlockBytes[b] bytes; the *)
(* byte at offset i of b has the address <<b, i>>.  The size of a set of   *)
(* blocks is the number of its addresses, so that sizes add up as          *)
(* cardinalities of finite sets do.                                        *)
(***************************************************************************)
EXTENDS Integers, FiniteSets

Addresses(BlockBytes, b) == {b} \X (1 .. BlockBytes[b])

\* The number of bytes of the blocks in S: the sum of BlockBytes over S.
BytesOf(BlockBytes, S) == Cardinality(UNION {Addresses(BlockBytes, b) : b \in S})
=============================================================================
