-------------------------- MODULE MCWatchRegistry --------------------------
(* Model-checking instances of WatchRegistry. *)
EXTENDS WatchRegistry

\* Pod path 1 lies under one hostPath mount, 2 under two nested ones.  (A path
\* under none adds nothing to a request, which may name no path anyway.)
MCKeys == 1..2
MCPaths == 11..13
MCMapKey == <<{11}, {12, 13}>>

\* One key, for a client that replays the one watch it has.
OneKey == {1}
OneMapKey == <<{11}>>

AllTypes == {"CLEAR", "WATCH", "UNWATCH"}
WatchOnly == {"WATCH"}
=============================================================================
