----------------------------- MODULE PathNames -----------------------------
(***************************************************************************)
(* Names on their way between a pod, the proxy and a node: the fixed       *)
(* fields of the messages (jfsnotify/utils.go and backend_jfs.go, with     *)
(* their twins in rust-jfs), the channel id and the name of the resource,  *)
(* the mapping between pod paths and node paths (fsnotify-proxy/app/app.go *)
(* and helper.go), and an event's Key (fsnotify-daemon/app/v2/app.go).     *)
(*                                                                         *)
(* A string is a sequence of one-character strings.  A field has FieldLen  *)
(* characters; an op, four bytes in the code, is one cell.                 *)
(***************************************************************************)
EXTENDS Naturals, SequencesExt

CONSTANTS FieldLen,   \* MaxName: 255
          LowerCase   \* upper-case characters with their lower-case ones

ASSUME FieldLenAssumption == FieldLen \in Nat \ {0}

Nul == "nul"   \* the zero byte

----------------------------------------------------------------------------
\* Fields.

\* make and copy: s in a buffer of n bytes; a longer string is cut.
Buffer(s, n) == SubSeq(s \o [i \in 1..n |-> Nul], 1, n)

Field(s) == Buffer(s, FieldLen)

\* bytes.Trim(b, "\x00")
Trim(b) ==
  LET kept == {i \in DOMAIN b : b[i] # Nul} IN
  IF kept = {} THEN <<>> ELSE SubSeq(b, Min(kept), Max(kept))

\* The data of WATCH and UNWATCH.  The name is copied into the buffer as a
\* whole, and the paths over it: a name longer than its field runs on in the
\* next ones.
PackWatches(name, paths) ==
  LET buf == Buffer(name, (Len(paths) + 1) * FieldLen)
      cell(n, j) == IF n > 0 /\ j <= Len(paths[n]) THEN paths[n][j] ELSE buf[n * FieldLen + j]
  IN [i \in DOMAIN buf |-> cell((i - 1) \div FieldLen, ((i - 1) % FieldLen) + 1)]

\* parseMsg: the channel id, then the paths.
ParseMsg(data) ==
  [f \in 1..(Len(data) + FieldLen - 1) \div FieldLen |->
     Trim(SubSeq(data, (f - 1) * FieldLen + 1, Min({f * FieldLen, Len(data)})))]

PackEvent(e) == Field(e.name) \o <<e.op>> \o Field(e.key)

FrameSize == FieldLen + 1 + FieldLen

\* The events of a message; what is left over after the last one is ignored.
UnpackEvent(data) ==
  [k \in 1..Len(data) \div FrameSize |->
     LET frame == SubSeq(data, (k - 1) * FrameSize + 1, k * FrameSize)
     IN [name |-> Trim(SubSeq(frame, 1, FieldLen)),
         op |-> frame[FieldLen + 1],
         key |-> Trim(SubSeq(frame, FieldLen + 2, FrameSize))]]

----------------------------------------------------------------------------
\* Channel ids: namespace/pod/container/watcher.

Lower(s) == [i \in DOMAIN s |-> IF s[i] \in DOMAIN LowerCase THEN LowerCase[s[i]] ELSE s[i]]

Slashes(s) == {i \in DOMAIN s : s[i] = "/"}
\* What is before the n-th slash, or everything.
Before(s, n) ==
  LET nth == {i \in Slashes(s) : Len(SelectSeq(SubSeq(s, 1, i), LAMBDA x : x = "/")) = n}
  IN IF nth = {} THEN s ELSE SubSeq(s, 1, Min(nth) - 1)

\* getPodName: namespace, pod and container, of an id with three tokens or more.
ValidChannel(id) == Len(SelectSeq(id, LAMBDA x : x = "/")) >= 2
GetPodName(id) == Before(id, 3)

\* getWatcher: the namespace, and the other tokens joined with dashes.
WatcherName(id) ==
  LET rest == SubSeq(id, Len(Before(id, 1)) + 2, Len(id))
  IN <<Before(id, 1), [i \in DOMAIN rest |-> IF rest[i] = "/" THEN "-" ELSE rest[i]]>>

----------------------------------------------------------------------------
\* Pod paths and node paths.

\* The node path and the pod path for key k, which begins with the path of
\* the mount.
MapKey(mount, k) ==
  LET sub == SubSeq(k, Len(mount.pod) + 1, Len(k))
      node == IF Last(mount.node) # "/" /\ sub[1] # "/" THEN mount.node \o <<"/">> ELSE mount.node
      rest == IF Last(node) = "/" /\ sub[1] = "/" THEN Tail(sub) ELSE sub
  IN IF sub = <<>> THEN [watch |-> mount.node, pod |-> mount.pod]
     ELSE [watch |-> node \o rest, pod |-> mount.pod \o rest]

\* What keys add to podPathMap with WATCH, and take from it with UNWATCH.  The
\* loop goes through the mounts and, for each, through the keys; of the hits
\* for one node path the last decides.
MapKeys(mounts, keys) ==
  LET hits == {h \in (DOMAIN mounts) \X (DOMAIN keys) : IsPrefix(mounts[h[1]].pod, keys[h[2]])}
      mapped == [h \in hits |-> MapKey(mounts[h[1]], keys[h[2]])]
      later(g, h) == g[1] < h[1] \/ (g[1] = h[1] /\ g[2] <= h[2])
      last(w) == CHOOSE h \in hits : /\ mapped[h].watch = w
                                     /\ \A g \in hits : mapped[g].watch = w => later(g, h)
  IN [w \in {mapped[h].watch : h \in hits} |-> mapped[last(w)].pod]

\* An event's Key: the name without its last token.
KeyOf(name) == IF Slashes(name) = {} THEN <<>> ELSE SubSeq(name, 1, Max(Slashes(name)) - 1)

\* translateEventNameInCluster, for a key that is mapped.
Translate(e, keyInPod) == [e EXCEPT !.name = ReplaceFirstSubSeq(keyInPod, e.key, e.name)]

\* filepath.Clean, which fsnotify's Add applies, for absolute paths without
\* dots: no empty token, no slash at the end.
Clean(p) ==
  LET kept == SelectSeq([i \in DOMAIN p |-> i], LAMBDA i : i = 1 \/ p[i] # "/" \/ p[i - 1] # "/")
      single == [n \in DOMAIN kept |-> p[kept[n]]]
  IN IF Len(single) > 1 /\ Last(single) = "/" THEN Front(single) ELSE single
=============================================================================
