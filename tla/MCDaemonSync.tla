---------------------------- MODULE MCDaemonSync ----------------------------
(* Model-checking instances of DaemonSync. *)
EXTENDS DaemonSync
=============================================================================
