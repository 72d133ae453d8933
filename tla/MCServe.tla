------------------------------ MODULE MCServe ------------------------------
(* Three mirrors, and an answer that has room for two. *)
EXTENDS Serve, TLC

CONSTANTS m1, m2, m3, f1, f2

MCMirror == {m1, m2, m3}
MCRank == (f1 :> 2) @@ (f2 :> 0)

MCProfile ==
    {[home |-> TRUE, score |-> 0, distance |-> 2, serves |-> "all"],
     [home |-> FALSE, score |-> 1, distance |-> 1, serves |-> "excluded"],
     [home |-> FALSE, score |-> 1, distance |-> 2, serves |-> "met"],
     [home |-> FALSE, score |-> 0, distance |-> 1, serves |-> "all"],
     [home |-> TRUE, score |-> 0, distance |-> 1, serves |-> "unmet"]}

Symmetry == Permutations(MCMirror)
=============================================================================
