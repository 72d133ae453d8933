----------------------------- MODULE MCMonitor -----------------------------
(* Monitor for TLC: the constants are given by the configuration file.     *)
EXTENDS Monitor
=============================================================================
