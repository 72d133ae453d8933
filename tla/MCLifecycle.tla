---------------------------- MODULE MCLifecycle ----------------------------
(* A process and the children of two upgrades, nested or side by side. *)
EXTENDS Lifecycle
=============================================================================
