------------------------------ MODULE MCCache ------------------------------
(* The cache of one node with one path and one mirror: four cached objects. *)
EXTENDS Cache
=============================================================================
