------------------------------- MODULE System -------------------------------
(***************************************************************************)
(* The parts together, message by message: clients (jfsnotify, rust-jfs),  *)
(* fsnotify-proxy with its watch registration and its fan-out, the         *)
(* FSWatcher resources, fsnotify-daemon on a node, and redis in between.   *)
(*                                                                         *)
(* Each handler is one step here; what happens inside them is in           *)
(* JfsWatcher and RustWatcher (client), WatchRegistry (registration),      *)
(* DaemonSync (daemon), Multicast and WriteDebounce (fan-out).  What is    *)
(* not abstracted here is the names: frames are packed and parsed, keys    *)
(* mapped and events translated by the operators of PathNames.             *)
(***************************************************************************)
EXTENDS PathNames

CONSTANTS Clients,      \* watching programs, one in each container
          Channel,      \* the channel id of each
          VolumeMounts, \* the volume mounts of each container, in order
          HostPath,     \* the volumes that are host directories, with their paths
          Keys,         \* the paths each program watches
          Files,        \* files of the node
          MaxCalls, MaxReports,   \* bounds on calls and events,
          MaxBreaks, MaxFaults,   \*   on lost connections and other failures,
          MaxInputs               \*   and on all of them together

ASSUME BoundAssumption == {MaxCalls, MaxReports, MaxBreaks, MaxFaults, MaxInputs} \subseteq Nat

VARIABLES
  list,        \* the client's watches
  fresh,       \* its CLEAR has yet to be sent
  link,        \* its connection is up
  requests,    \* frames queued or under way to the proxy
  podPathMap,  \* the helper's podPathMap
  crName,      \* the helper's CRName; <<>> for none
  parked,      \* WRITE events in the helper's delayedWrites
  inbox,       \* frames queued or under way to the client
  old,         \* the helpers of lost connections, with the frames left to handle
  crs,         \* the paths of each FSWatcher
  dirty,       \* a resource has changed since the daemon's last sync
  watched,     \* the paths the daemon watches
  topic,       \* events published and not fanned out
  got,         \* history: what each client has read
  reports,     \* history: what the node has reported
  asked,       \* history: the node's directories a client has asked for
  unread,      \* history: keys of the client's last messages that found no pod
  outdated,    \* history: resources not as the live connection's last message says,
               \*   which could not write it, or an earlier one has changed it since
  missed,      \* history: paths that a sync was to add and did not
  calls, breaks, faults

clientVars == <<list, fresh, asked, calls>>
helperVars == <<podPathMap, crName, parked>>
oldVars == <<old, breaks>>
apiVars == <<crs, dirty, outdated, unread>>
nodeVars == <<watched, missed, reports>>
vars == <<clientVars, link, requests, helperVars, inbox, oldVars, apiVars, nodeVars, topic, got,
          faults>>

MoreInput == calls + Len(reports) + breaks + faults < MaxInputs
Ids == 1..MaxReports
Dirs == {KeyOf(f) : f \in Files}
Empty == << >>   \* the map without an entry
Merge(f, g) == [x \in DOMAIN f \cup DOMAIN g |-> IF x \in DOMAIN f THEN f[x] ELSE g[x]]   \* f over g

Init ==
  /\ list = [c \in Clients |-> {}] /\ fresh = [c \in Clients |-> TRUE]
  /\ link = [c \in Clients |-> FALSE] /\ requests = [c \in Clients |-> <<>>]
  /\ podPathMap = [c \in Clients |-> Empty] /\ crName = [c \in Clients |-> <<>>]
  /\ parked = [c \in Clients |-> {}]
  /\ inbox = [c \in Clients |-> <<>>]
  /\ crs = Empty /\ old = {} /\ dirty = FALSE
  /\ watched = {} /\ topic = <<>>
  /\ got = [c \in Clients |-> <<>>] /\ reports = <<>>
  /\ asked = [c \in Clients |-> {}] /\ unread = [c \in Clients |-> {}]
  /\ outdated = {} /\ missed = {}
  /\ calls = 0 /\ breaks = 0 /\ faults = 0

----------------------------------------------------------------------------
\* What a path in a pod stands for, whatever the code makes of it: the file
\* below the mount that is nearest to it.
Mounts(c) ==
  LET host == SelectSeq(VolumeMounts[c], LAMBDA m : m.volume \in DOMAIN HostPath)
  IN [i \in DOMAIN host |-> [pod |-> host[i].path, node |-> HostPath[host[i].volume]]]
Under(d, p) == IsPrefix(d, p) /\ (d = p \/ Last(d) = "/" \/ p[Len(d) + 1] = "/")
Resolve(c, p) ==
  LET over == {m \in ToSet(Mounts(c)) : Under(m.pod, p)}
      nearest == {m \in over : \A n \in over : Len(n.pod) <= Len(m.pod)}
  IN {Clean(m.node \o <<"/">> \o SubSeq(p, Len(m.pod) + 1, Len(p))) : m \in nearest}

\* The volume mounts of the container a channel id names, for volumes that
\* are host directories; nothing if there is no such pod.
MountsOf(id) ==
  LET owners == {c \in Clients : ValidChannel(id) /\ GetPodName(Lower(Channel[c])) = GetPodName(id)}
  IN IF owners = {} THEN <<>> ELSE Mounts(CHOOSE c \in owners : TRUE)

\* What the proxy reads in a message of c about a set of keys: the resource,
\* and the part of podPathMap it is about.
Wire ==
  Empty @@ [c \in Clients |-> Empty @@ [ks \in SUBSET UNION Range(Keys) |->
     LET fields == ParseMsg(PackWatches(Channel[c], SetToSeq(ks)))
         id == Lower(fields[1])
     IN [name |-> WatcherName(id), map |-> MapKeys(MountsOf(id), Tail(fields))]]]

\* The name the client reads in an event for file f that was sent with its Key
\* replaced by p.
PodPaths == UNION {Range(wire.map) : wire \in UNION {Range(Wire[c]) : c \in Clients}}
Sent ==
  Empty @@ [f \in Files |-> Empty @@ [p \in PodPaths |->
     UnpackEvent(PackEvent(Translate([name |-> f, op |-> "op", key |-> KeyOf(f)], p)))[1].name]]

\* The names as they should be.
Name == Empty @@ [c \in Clients |-> WatcherName(Lower(Channel[c]))]
Path == Empty @@ [c \in Clients |-> Empty @@ [k \in UNION Range(Keys) |-> Resolve(c, k)]]

\* What the proofs ask of the names of a configuration.  NamesFaithful: every
\* message names its sender's resource, its keys are mapped one by one, to the
\* directories they stand for (no key begins with the letters of a mount that
\* it is not in), and an event's Key has no slash too many.  KeysApart: no two
\* keys of a client are one directory, no two clients have one resource.
Nodes(c, ks) == DOMAIN Wire[c][ks].map
NamesFaithful ==
  /\ \A c \in Clients : \A ks \in SUBSET Keys[c] :
       Wire[c][ks].name = Name[c] /\ Nodes(c, ks) = UNION {Nodes(c, {k}) : k \in ks}
  /\ \A c \in Clients : \A k \in Keys[c] : {Clean(p) : p \in Nodes(c, {k})} = Path[c][k]
  /\ \A d \in Dirs : Clean(d) = d
KeysApart ==
  /\ \A c \in Clients : \A j, k \in Keys[c] : j # k => Nodes(c, {j}) \cap Nodes(c, {k}) = {}
  /\ \A c, d \in Clients : Name[c] = Name[d] => c = d

TypeOK ==
  /\ \A c \in Clients :
       /\ list[c] \subseteq Keys[c]
       /\ \A r \in ToSet(requests[c]) : r.type \in {"CLEAR", "WATCH", "UNWATCH"}
       /\ parked[c] \subseteq DOMAIN reports
       /\ \A i, j \in parked[c] : i # j => reports[i].file # reports[j].file
       /\ crName[c] # <<>> => crName[c] = Name[c]
  /\ \A h \in old : h.client \in Clients /\ h.name \in {<<>>, Name[h.client]}
  /\ watched \subseteq Dirs \cup Files
  /\ topic \in Seq(Ids)
  /\ calls \in 0..MaxCalls /\ breaks \in 0..MaxBreaks /\ faults \in 0..MaxFaults
  /\ Len(reports) <= MaxReports

----------------------------------------------------------------------------
\* The client.

Frame(type, keys) == [type |-> type, keys |-> keys]

\* Add, or Remove of a path that was added: the list is changed and a message
\* queued.
Call(c, type, k) ==
  /\ MoreInput /\ calls < MaxCalls /\ (type = "UNWATCH" => k \in list[c])
  /\ calls' = calls + 1
  /\ list' = [list EXCEPT ![c] = IF type = "WATCH" THEN @ \cup {k} ELSE @ \ {k}]
  /\ requests' = [requests EXCEPT ![c] = Append(@, Frame(type, {k}))]
  /\ asked' = IF type = "WATCH" THEN [asked EXCEPT ![c] = @ \cup Path[c][k]] ELSE asked
  /\ UNCHANGED <<fresh, link, helperVars, inbox, oldVars, apiVars, nodeVars, topic, got, faults>>

Begin(c, replay) ==
  /\ ~link[c]
  /\ link' = [link EXCEPT ![c] = TRUE]
  /\ fresh' = [fresh EXCEPT ![c] = FALSE]
  /\ requests' = [requests EXCEPT ![c] =
       (IF fresh[c] THEN <<Frame("CLEAR", {})>> ELSE <<>>) \o @ \o
       (IF replay = {} THEN <<>> ELSE <<Frame("WATCH", replay)>>)]
  /\ UNCHANGED <<list, asked, calls, helperVars, inbox, oldVars, apiVars, nodeVars, topic, got, faults>>

\* Fault: a connection after the first does not send the list.
ConnectOnce(c) == Begin(c, IF fresh[c] THEN list[c] ELSE {})

\* A connection, in the order of rust-jfs: the first one begins with CLEAR,
\* past the queue; each one queues the whole list.
Connect(c) == Begin(c, list[c])

\* What there is left to do of a lost connection: frames to handle with its
\* mapping, and a resource to delete when it is torn down.
Left(h) ==
  IF h.frames # <<>> THEN {h}
  ELSE IF h.up /\ h.name # <<>> THEN {[h EXCEPT !.map = Empty]} ELSE {}

\* The client notices that its connection is broken.  The first n frames are
\* at the proxy, for the helper to handle yet, those up to the m-th are lost
\* with the connection, and the others are still queued.
Break(c) ==
  /\ MoreInput /\ link[c] /\ breaks < MaxBreaks
  /\ breaks' = breaks + 1
  /\ link' = [link EXCEPT ![c] = FALSE]
  /\ \E m \in 0..Len(requests[c]) : \E n \in 0..m :
       /\ requests' = [requests EXCEPT ![c] = SubSeq(@, m + 1, Len(@))]
       /\ old' = old \cup Left([id |-> breaks, client |-> c, frames |-> SubSeq(requests[c], 1, n),
                                map |-> podPathMap[c], name |-> crName[c], up |-> TRUE])
  /\ inbox' = [inbox EXCEPT ![c] = <<>>]
  /\ podPathMap' = [podPathMap EXCEPT ![c] = Empty]
  /\ parked' = [parked EXCEPT ![c] = {}]
  /\ crName' = [crName EXCEPT ![c] = <<>>]
  /\ unread' = [unread EXCEPT ![c] = {}]
  /\ UNCHANGED <<clientVars, crs, dirty, outdated, nodeVars, topic, got, faults>>

\* Its reader reads a frame.
Receive(c) ==
  /\ link[c] /\ inbox[c] # <<>>
  /\ got' = [got EXCEPT ![c] = Append(@, Head(inbox[c]))]
  /\ inbox' = [inbox EXCEPT ![c] = Tail(@)]
  /\ UNCHANGED <<clientVars, link, requests, helperVars, oldVars, apiVars, nodeVars, topic, faults>>

----------------------------------------------------------------------------
\* The proxy: registration.

\* processWatcherMessage, for frame r of client c: the mapping after it, and
\* whether the resource is to be written with it: CLEAR deletes it, WATCH and
\* UNWATCH write it unless nothing is mapped.
After(c, r, map) ==
  LET wire == Wire[c][r.keys]
  IN IF r.type = "WATCH" THEN Merge(wire.map, map) ELSE Restrict(map, DOMAIN map \ DOMAIN wire.map)
Writes(r, map) == r.type # "CLEAR" /\ DOMAIN map # {}

\* The resource called name is written, or deleted; the daemon is told.
Write(name, map) == crs' = Merge([n \in {name} |-> DOMAIN map], crs) /\ dirty' = TRUE
Delete(name) ==
  crs' = Restrict(crs, DOMAIN crs \ {name}) /\ dirty' = (dirty \/ name \in DOMAIN crs)

Store(r, name, map) ==
  \/ r.type = "CLEAR" /\ Delete(name)
  \/ Writes(r, map) /\ Write(name, map)
  \/ r.type # "CLEAR" /\ ~Writes(r, map) /\ UNCHANGED <<crs, dirty>>

\* The next frame of a live connection, when no call of the API server fails.
ProcessWatcherMessage(c) ==
  LET r == Head(requests[c])
      map == After(c, r, podPathMap[c])
      name == Wire[c][r.keys].name
  IN /\ link[c] /\ requests[c] # <<>>
     /\ requests' = [requests EXCEPT ![c] = Tail(@)]
     /\ podPathMap' = [podPathMap EXCEPT ![c] = map]
     /\ Store(r, name, map)
     /\ crName' = IF Writes(r, map) THEN [crName EXCEPT ![c] = name] ELSE crName
     /\ outdated' = IF Writes(r, map) THEN outdated \ {name} ELSE outdated
     /\ unread' = [unread EXCEPT ![c] = @ \ r.keys]
     /\ UNCHANGED <<clientVars, link, parked, inbox, oldVars, nodeVars, topic, got, faults>>

\* The pod is not found, or what a CLEAR is to delete is not: an error is
\* logged, and the frame is gone.
ReadFails(c) ==
  /\ link[c] /\ requests[c] # <<>> /\ MoreInput /\ faults < MaxFaults
  /\ faults' = faults + 1
  /\ requests' = [requests EXCEPT ![c] = Tail(@)]
  /\ unread' = [unread EXCEPT ![c] = @ \cup Head(requests[c]).keys]
  /\ UNCHANGED <<clientVars, link, helperVars, inbox, oldVars, crs, dirty, outdated, nodeVars, topic,
                 got>>

\* The mapping is changed and the resource named, but getWatcher, Create or
\* Update fails.
WriteFails(c) ==
  LET r == Head(requests[c])
      map == After(c, r, podPathMap[c])
      name == Wire[c][r.keys].name
  IN /\ link[c] /\ requests[c] # <<>> /\ MoreInput /\ faults < MaxFaults /\ Writes(r, map)
     /\ faults' = faults + 1
     /\ requests' = [requests EXCEPT ![c] = Tail(@)]
     /\ podPathMap' = [podPathMap EXCEPT ![c] = map]
     /\ crName' = [crName EXCEPT ![c] = name]
     /\ outdated' = outdated \cup {name}
     /\ unread' = [unread EXCEPT ![c] = @ \ r.keys]
     /\ UNCHANGED <<clientVars, link, parked, inbox, oldVars, crs, dirty, nodeVars, topic, got>>

----------------------------------------------------------------------------
\* The proxy: what a lost connection leaves behind.

\* A resource that an earlier connection changes is no longer what the live one
\* has made of it.
Overtakes(name) ==
  outdated' = IF \E c \in Clients : crName[c] = name THEN outdated \cup {name} ELSE outdated

\* The connection with its next frame handled.
Handled(h) ==
  LET r == Head(h.frames)
      map == After(h.client, r, h.map)
  IN [h EXCEPT !.frames = Tail(@), !.map = map,
               !.name = IF Writes(r, map) THEN Wire[h.client][r.keys].name ELSE @]

\* Its reader handles a frame it had buffered, before or after the teardown.
OldMessage(h) ==
  LET r == Head(h.frames)
      map == Handled(h).map
      name == Wire[h.client][r.keys].name
  IN /\ h.frames # <<>>
     /\ old' = (old \ {h}) \cup Left(Handled(h))
     /\ Store(r, name, map)
     /\ IF r.type = "CLEAR" \/ Writes(r, map) THEN Overtakes(name) ELSE UNCHANGED outdated
     /\ UNCHANGED <<clientVars, link, requests, helperVars, inbox, breaks, unread, nodeVars,
                    topic, got, faults>>

\* Its helper closes, and the goroutine of Remove deletes the resource the
\* helper has named.  It goes by the name.
OldRemove(h) ==
  /\ h.up
  /\ old' = (old \ {h}) \cup Left([h EXCEPT !.up = FALSE])
  /\ IF h.name = <<>> THEN UNCHANGED <<crs, dirty, outdated>> ELSE Delete(h.name) /\ Overtakes(h.name)
  /\ UNCHANGED <<clientVars, link, requests, helperVars, inbox, breaks, unread, nodeVars, topic, got,
                 faults>>

\* The API server refuses what either wants of it.
OldFails(h) ==
  /\ MoreInput /\ faults < MaxFaults
  /\ faults' = faults + 1
  /\ \/ /\ h.frames # <<>>
        /\ \E g \in {Handled(h), [h EXCEPT !.frames = Tail(@)]} : old' = (old \ {h}) \cup Left(g)
     \/ h.up /\ old' = (old \ {h}) \cup Left([h EXCEPT !.up = FALSE])
  /\ UNCHANGED <<clientVars, link, requests, helperVars, inbox, breaks, apiVars, nodeVars, topic, got>>

----------------------------------------------------------------------------
\* The daemon and redis.

\* The paths of all resources that exist on the node.
Existing == {Clean(p) : p \in UNION Range(crs)} \cap (Dirs \cup Files)

\* A sync that adds paths ps of them.
Sync(ps) ==
  /\ dirty /\ dirty' = FALSE
  /\ watched' = watched \cup ps
  /\ missed' = (missed \cup Existing) \ watched'
  /\ UNCHANGED <<clientVars, link, requests, helperVars, inbox, oldVars, crs, outdated, unread, reports,
                 topic, got>>

\* Fault: only the first sync adds anything.
SyncWatchesOnce == watched = {} /\ Sync(Existing) /\ UNCHANGED faults

SyncWatches == Sync(Existing) /\ UNCHANGED faults

\* There is no watcher yet, or fsnotify refuses some of the paths.
SyncMisses ==
  /\ MoreInput /\ faults < MaxFaults /\ faults' = faults + 1
  /\ \E ps \in SUBSET Existing : ps # Existing /\ Sync(ps)

\* run: inotify reports a change of file f, through a watch on its directory or
\* on the file, and the event is published.  One that is not, for an error that
\* is logged, is no step here.
Publish(f, op) ==
  /\ MoreInput /\ Len(reports) < MaxReports
  /\ {f, KeyOf(f)} \cap watched # {}
  /\ reports' = Append(reports, [file |-> f, dir |-> KeyOf(f), op |-> op])
  /\ topic' = Append(topic, Len(reports) + 1)
  /\ UNCHANGED <<clientVars, link, requests, helperVars, inbox, oldVars, apiVars, watched, missed, got,
                 faults>>

----------------------------------------------------------------------------
\* The proxy: fan-out.

\* Fault: the mapping that is looked up is that of any client.
SendEventShared(c, i) ==
  LET maps == {d \in Clients : reports[i].dir \in DOMAIN podPathMap[d]} IN
  IF maps = {} THEN <<>>
  ELSE <<[id |-> i, name |-> Sent[reports[i].file][podPathMap[CHOOSE d \in maps : TRUE][reports[i].dir]]]>>

\* sendEvent: the frames it adds for the client.
SendEvent(c, i) ==
  IF reports[i].dir \notin DOMAIN podPathMap[c] THEN <<>>
  ELSE <<[id |-> i, name |-> Sent[reports[i].file][podPathMap[c][reports[i].dir]]]>>

\* Fault: the WRITE is parked beside an earlier one of the same name.
ParkBeside(c, i) == parked[c] \cup {i}

\* armWriteDebounce: a WRITE takes the place of an earlier one.
Park(c, i) == {j \in parked[c] : reports[j].file # reports[i].file} \cup {i}

\* Deliver: every client's WriteMsg parks a WRITE and sends anything else.
Deliver ==
  LET i == Head(topic)
      up == {c \in Clients : link[c]}
  IN /\ topic # <<>>
     /\ topic' = Tail(topic)
     /\ IF reports[i].op = "WRITE"
        THEN /\ parked' = [c \in Clients |->
                             IF c \in up THEN Park(c, i) ELSE parked[c]]
             /\ UNCHANGED inbox
        ELSE /\ inbox' = [c \in Clients |-> IF c \in up THEN inbox[c] \o SendEvent(c, i) ELSE inbox[c]]
             /\ UNCHANGED parked
     /\ UNCHANGED <<clientVars, link, requests, podPathMap, crName, oldVars, apiVars, nodeVars, got,
                    faults>>

\* The timer of a WRITE: what it takes out and what it sends.
Fire(c, i, out, frames) ==
  /\ i \in parked[c]
  /\ parked' = [parked EXCEPT ![c] = @ \ out]
  /\ inbox' = [inbox EXCEPT ![c] = @ \o frames]
  /\ UNCHANGED <<clientVars, link, requests, podPathMap, crName, oldVars, apiVars, nodeVars, topic, got,
                 faults>>

\* Fault: the WRITE stays with the timer, which sends it again.
FlushAgain(c, i) == Len(inbox[c]) < MaxReports /\ Fire(c, i, {}, SendEvent(c, i))

\* Fault: the WRITE is taken out and not sent.
FlushDrops(c, i) == Fire(c, i, {i}, <<>>)

\* flushWriteDebounce
Flush(c, i) == Fire(c, i, {i}, SendEvent(c, i))

----------------------------------------------------------------------------
\* What the parts do by themselves.
Step ==
  \/ \E c \in Clients : \/ Connect(c) \/ Receive(c) \/ ProcessWatcherMessage(c)
                        \/ \E i \in Ids : Flush(c, i)
  \/ SyncWatches \/ Deliver

Next ==
  \/ Step
  \/ \E c \in Clients : \/ \E k \in Keys[c], type \in {"WATCH", "UNWATCH"} : Call(c, type, k)
                        \/ Break(c) \/ ReadFails(c) \/ WriteFails(c)
  \/ \E h \in old : OldMessage(h) \/ OldRemove(h) \/ OldFails(h)
  \/ SyncMisses
  \/ \E f \in Files, op \in {"WRITE", "OTHER"} : Publish(f, op)

\* As long as some part has something to do, one of them goes on: each step
\* uses up some of a finite work, so this weak assumption is enough.  Nothing
\* makes a program call, a file change, a link break, a call of the API server
\* fail, or what a lost connection left behind come.
Fairness == WF_vars(Step)

Spec == Init /\ [][Next]_vars /\ Fairness

----------------------------------------------------------------------------
\* The name of file f in the pod of c fits into a field.
Fits(c, f) ==
  \A m \in ToSet(Mounts(c)) :
    Under(Clean(m.node), f) => Len(f) + Len(m.pod) <= FieldLen + Len(Clean(m.node))

\* Translating one event with one entry of the mapping gives the name of its
\* file in the pod.
NamesKept ==
  \A c \in Clients : \A ks \in SUBSET Keys[c] : \A f \in Files :
    KeyOf(f) \in Nodes(c, ks) /\ Fits(c, f)
      => Resolve(c, Sent[f][Wire[c][ks].map[KeyOf(f)]]) = {f}

\* The name a client is given, looked up in its own file system, is the file
\* that changed on the node (app.go:178-196, helper.go:211, v2/app.go:66),
\* through packing, mapping, keying, translating and unpacking, as long as it
\* fits into a field.
RightFile ==
  \A c \in Clients : \A g \in ToSet(got[c]) :
    LET f == reports[g.id].file IN Fits(c, f) => Resolve(c, g.name) = {f}

\* Once the proxy has handled everything a client sent, the client's resource
\* lists what the client watches, whatever other clients, earlier connections
\* and lost frames did (app.go:243, 268), unless nothing is left to watch
\* (app.go:215), a message found no pod (150-154), the last write failed
\* (235-245), or the delete or a late message of an earlier connection came
\* after it: only these can part them.
ResourceMatchesList ==
  \A c \in Clients :
    LET name == Name[c]
        wanted == UNION {Path[c][k] : k \in list[c]}
    IN link[c] /\ requests[c] = <<>> /\ wanted # {} /\ unread[c] = {} /\ name \notin outdated
         => name \in DOMAIN crs /\ {Clean(p) : p \in crs[name]} = wanted

\* The whole system implements EventFeed: no event that the client's
\* directories do not explain, none twice, and all but WRITE in order, through
\* redis, fan-out, debouncing and reconnection.
Reports == {[file |-> f, dir |-> KeyOf(f), op |-> op] : f \in Files, op \in {"WRITE", "OTHER"}}
Wanted == [c \in Clients |-> asked[c] \cap Dirs]
Taken == [c \in Clients |-> [n \in DOMAIN got[c] |-> got[c][n].id]]
Feed == INSTANCE EventFeed WITH Events <- Reports, asked <- Wanted, taken <- Taken
FeedRefinement == Feed!Spec

\* Once programs call no more and nothing more breaks or fails, every path that
\* a connected client has in its list is watched on the node, and stays so,
\* unless its message found no pod, the resource was not written or was changed
\* by an earlier connection, or the daemon missed just this path
\* (v2/app.go:104-119).
WatchTakesEffect ==
  <>[](\A c \in Clients : \A k \in list[c] :
         \/ ~link[c] \/ Path[c][k] \subseteq watched
         \/ k \in unread[c] \/ Name[c] \in outdated \/ Path[c][k] \cap missed # {})

\* An event that is under way, of a directory the client's helper maps, reaches
\* the client, unless the link breaks, the path is unwatched, or a
\* later WRITE of the same file takes its place.
Due(c, i) ==
  /\ i \in DOMAIN reports /\ link[c]
  /\ reports[i].dir \in DOMAIN podPathMap[c]
  /\ ~\E j \in DOMAIN reports : j > i /\ reports[i].op = "WRITE" /\ reports[j] = reports[i]
UnderWay(c, i) ==
  \/ i \in ToSet(topic) \cup parked[c]
  \/ \E m \in ToSet(inbox[c]) : m.id = i
EventArrives ==
  \A c \in Clients, i \in Ids :
    (Due(c, i) /\ UnderWay(c, i)) ~> (~Due(c, i) \/ \E g \in ToSet(got[c]) : g.id = i)
=============================================================================
