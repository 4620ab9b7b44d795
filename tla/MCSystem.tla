------------------------------ MODULE MCSystem ------------------------------
(* Model-checking instances of System: strings, and a pod with two containers. *)
EXTENDS System

CONSTANTS c1, c2

DirN == <<"/", "n">>
DirND == <<"/", "n", "/", "d">>
MCChannel == (c1 :> <<"n", "/", "p", "/", "c", "/", "W">>) @@ (c2 :> <<"n", "/", "p", "/", "e", "/", "w">>)
MCLowerCase == "W" :> "w"
\* The volume is mounted in one container, a part of it in the other.
MCHostPath == ("data" :> DirN) @@ ("part" :> DirND)
MCHostPathSlash == ("data" :> DirN \o <<"/">>) @@ ("part" :> DirND)
MCVolumeMounts ==
  (c1 :> <<[path |-> <<"/", "a">>, volume |-> "data"], [path |-> <<"/", "t">>, volume |-> "other"]>>) @@
  (c2 :> <<[path |-> <<"/", "b", "b", "b", "b">>, volume |-> "part"]>>)
MCKeys == (c1 :> {<<"/", "a">>, <<"/", "a", "/", "d">>}) @@ (c2 :> {<<"/", "b", "b", "b", "b">>})
\* The second file's name fills its field in one pod, and is cut in the other.
MCFiles == {DirN \o <<"/", "f">>, DirND \o <<"/", "f", "g", "h">>}

\* What the proofs ask of the names holds of these; translating does not keep
\* the name below a host path that ends in a slash.
ASSUME NamesHold ==
  /\ NamesFaithful /\ KeysApart
  /\ NamesKept <=> \A v \in DOMAIN HostPath : Last(HostPath[v]) # "/"
=============================================================================
