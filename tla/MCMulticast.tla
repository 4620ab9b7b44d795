---------------------------- MODULE MCMulticast ----------------------------
(* The instance of Multicast that TLC checks; its constants are in the cfg. *)
EXTENDS Multicast
=============================================================================
