------------------------------- MODULE MCBins -------------------------------
EXTENDS Bins, TLC

(* Two small bins, and what is asked of them. *)
SmallWorkload == [sizes |-> {16, 24}, needs |-> {16, 24, 32}]

(* Five sizes of tree bin 0, whose paths part at different depths, one of  *)
(* bin 1, and two of the last bin, whose paths run along all bits; small   *)
(* requests, and large ones below, between, on and above the sizes.        *)
LargeWorkload ==
  [sizes |-> {256, 264, 288, 320, 328, 384, 2 ^ 24, 2 ^ 28},
   needs |-> {16, 248, 256, 264, 280, 304, 320, 328, 336, 384, 392,
              2 ^ 24, 2 ^ 24 + 8, 2 ^ 28 + 8}]

(* Chunks that move between the last small bin and the first tree bin.     *)
MixedWorkload == [sizes |-> {240, 248, 256, 264}, needs |-> {240, 248, 256, 264, 272}]

MCWorkloads == {SmallWorkload, LargeWorkload, MixedWorkload}

Symm == Permutations(Chunks)
=============================================================================
