--------------------------- MODULE MCRustWatcher ---------------------------
(* Model-checking instances of RustWatcher. *)
EXTENDS RustWatcher
=============================================================================
