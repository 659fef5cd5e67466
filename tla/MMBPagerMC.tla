---------------------------- MODULE MMBPagerMC ----------------------------
(***************************************************************************)
(* Blocks of one layer have one size, as in a bundle: one byte in layer 0, *)
(* two in layer 1, four in layer 2.  With room for two bytes the blocks of *)
(* layer 0 fit together and the one of layer 1 alone; that of layer 2 is   *)
(* larger than the cache, and expert 1 of layers 1 and 2 is not in the     *)
(* model map.                                                              *)
(***************************************************************************)
EXTENDS MMBPager, TLC

MCDescribed == {<<0, 0>>, <<0, 1>>, <<1, 0>>, <<2, 0>>}
MCBytes == [r \in MCDescribed |-> 2 ^ r[1]]
=============================================================================
