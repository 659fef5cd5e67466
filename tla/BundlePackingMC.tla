--------------------------- MODULE BundlePackingMC ---------------------------
(***************************************************************************)
(* Two conversions of GGUF files with segments of different lengths: one   *)
(* layer of two experts and two core tensors, two layers of one expert     *)
(* without core tensors, and one that cannot be split.                     *)
(***************************************************************************)
EXTENDS BundlePacking, TLC

Fused(down, gate, up) == ("down" :> down) @@ ("gate" :> gate) @@ ("up" :> up)

MCSources ==
    {[core |-> <<1, 2>>, experts |-> 2, fused |-> <<Fused(2, 4, 2)>>],
     [core |-> <<>>, experts |-> 1, fused |-> <<Fused(1, 2, 1), Fused(2, 1, 1)>>],
     [core |-> <<1>>, experts |-> 2, fused |-> <<Fused(2, 3, 2)>>]}

PackerSymmetry == Permutations(Packers)
=============================================================================
