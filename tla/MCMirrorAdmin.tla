--------------------------- MODULE MCMirrorAdmin ---------------------------
(* Two terminals, two goroutines of the monitor, and names that may collide. *)
EXTENDS MirrorAdmin, TLC

CONSTANTS c1, c2, g1, g2, n1, n2

MCClient == {c1, c2}
MCGoroutine == {g1, g2}
MCName == {n1, n2}
Symmetry == Permutations(MCClient) \cup Permutations(MCGoroutine) \cup Permutations(MCName)
=============================================================================
