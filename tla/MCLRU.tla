------------------------------- MODULE MCLRU -------------------------------
(* The LRU cache with values of size 0, of half and of more than the       *)
(* capacity, and with integers that wrap just above the largest total.     *)
EXTENDS LRU, TLC

CONSTANTS empty, small, large

Sizes == empty :> 0 @@ small :> 1 @@ large :> 3
MCSizeOf(v) == Sizes[v]

Symmetry == Permutations(Key)
=============================================================================
