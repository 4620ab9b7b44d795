--------------------------- MODULE MCProxyProcess ---------------------------
(* Model-checking instances of ProxyProcess. *)
EXTENDS ProxyProcess
=============================================================================
