---------------------------- MODULE MCMirrorScan ----------------------------
(* Instance of MirrorScan for TLC.  Sessions and files are interchangeable   *)
(* and no liveness property is checked, so both are symmetry sets.           *)
EXTENDS MirrorScan, TLC

Symmetry == Permutations(File) \cup Permutations(Session)
=============================================================================
