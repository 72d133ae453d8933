---------------------------- MODULE MCClusterLock ----------------------------
(* Instance of ClusterLock for TLC.  lockTTL and lockRefresh keep their 2:1  *)
(* ratio (6 and 3 seconds instead of 10 and 5), with a delay of one second,  *)
(* the largest that satisfies TimingAssumption at this scale.                *)
EXTENDS ClusterLock
=============================================================================
