-------------------------- MODULE MCWriteDebounce --------------------------
(* Model-checking instances of WriteDebounce. *)
EXTENDS WriteDebounce
=============================================================================
