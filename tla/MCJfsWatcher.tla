---------------------------- MODULE MCJfsWatcher ----------------------------
(* Model-checking instances of JfsWatcher. *)
EXTENDS JfsWatcher
=============================================================================
