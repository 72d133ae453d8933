---------------------------- MODULE MCDBUpgrade ----------------------------
(* Two processes start on a database with two mirrors, one of which serves *)
(* a file of the repository and one that is not, the other none, and with  *)
(* statistics of one mirror and a removed one, and of the removed one only. *)
EXTENDS DBUpgrade, TLC

CONSTANTS a, b, f, g, gone, day, month

MCFilesOf == a :> {f, g} @@ b :> {}
MCCounted == day :> {gone} @@ month :> {a, gone}
=============================================================================
