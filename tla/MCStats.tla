------------------------------ MODULE MCStats ------------------------------
(* Two files and one mirror, over the two months of a year. *)
EXTENDS Stats, TLC

CONSTANTS f1, f2

MCFile == {f1, f2}
MCSize == (f1 :> 2) @@ (f2 :> 0)
=============================================================================
