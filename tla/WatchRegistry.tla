--------------------------- MODULE WatchRegistry ---------------------------
(***************************************************************************)
(* How fsnotify-proxy registers the paths of one watcher (one channel id   *)
(* namespace/pod/container/name) as an FSWatcher custom resource:          *)
(* k8s/cmd/fsnotify-proxy/app/app.go (InitClient's Remove,                 *)
(* processWatcherMessage, getWatcher).                                     *)
(*                                                                         *)
(* Conns are the TCP connections of that watcher, in the order the client  *)
(* makes them; an old one and its successor overlap until the proxy has    *)
(* noticed that the old one is gone.  Each connection's reader handles     *)
(* CLEAR, WATCH and UNWATCH, one API call per step.  Tearing a connection  *)
(* down runs Remove, whose goroutine deletes the resource by name later    *)
(* on.  The API server is external: names are unique, an Update succeeds   *)
(* only on the version that was read.                                      *)
(***************************************************************************)
EXTENDS Naturals

CONSTANTS Conns,         \* the connections
          Keys,          \* the pod paths the client asks for
          Types,         \* the kinds of request it sends
          Paths,         \* the node paths
          MapKey,        \* the node paths the pod's volume mounts give a key
          ApiFaults,     \* TRUE: API calls may fail
          MaxMsgs        \* bound on the messages handled

ASSUME MapKeyAssumption == MapKey \in [Keys -> SUBSET Paths]
ASSUME TypesAssumption == Types \subseteq {"CLEAR", "WATCH", "UNWATCH"}
ASSUME SwitchAssumption == ApiFaults \in BOOLEAN
ASSUME MaxMsgsAssumption == MaxMsgs \in Nat

VARIABLES
  live,        \* each connection: "none", "up" or "gone" (Close has run)
  pc,          \* control state of its reader
  req,         \* the message its reader handles
  podPathMap,  \* the node paths its helper maps
  crName,      \* its helper's CRName has been set
  got,         \* the version of the resource its reader has read
  deleter,     \* Remove's goroutine: "none", "pending", "done" or "failed"
  cr,          \* the resource in the API server
  version,     \* versions given so far
  msgs,        \* messages handled so far
  answered,    \* history: its last WATCH or UNWATCH met no API error
  overtaken    \* history: the resource was created for a connection torn down before

readerVars == <<pc, req, podPathMap, crName, got, answered>>
vars == <<live, readerVars, deleter, cr, version, msgs, overtaken>>

NoCR == [paths |-> {}, version |-> 0]
Requests == {m \in [type : Types, keys : SUBSET Keys] : m.type = "CLEAR" => m.keys = {}}
NoRequest == [type |-> "none", keys |-> {}]

TypeOK ==
  /\ live \in [Conns -> {"none", "up", "gone"}]
  /\ pc \in [Conns -> {"idle", "clearGet", "clearDelete", "pod", "get", "create",
                       "update", "exit"}]
  /\ req \in [Conns -> Requests \cup {NoRequest}]
  /\ podPathMap \in [Conns -> SUBSET Paths]
  /\ crName \in [Conns -> BOOLEAN]
  /\ got \in [Conns -> Nat]
  /\ answered \in [Conns -> BOOLEAN]
  /\ deleter \in [Conns -> {"none", "pending", "done", "failed"}]
  /\ cr \in [paths : SUBSET Paths, version : Nat]
  /\ version \in Nat
  /\ msgs \in 0..MaxMsgs
  /\ overtaken \in BOOLEAN

Init ==
  /\ live = [c \in Conns |-> "none"]
  /\ pc = [c \in Conns |-> "idle"]
  /\ req = [c \in Conns |-> NoRequest]
  /\ podPathMap = [c \in Conns |-> {}]
  /\ crName = [c \in Conns |-> FALSE]
  /\ got = [c \in Conns |-> 0]
  /\ answered = [c \in Conns |-> FALSE]
  /\ deleter = [c \in Conns |-> "none"]
  /\ cr = NoCR
  /\ version = 0
  /\ msgs = 0
  /\ overtaken = FALSE

----------------------------------------------------------------------------
\* The resource gets the next version with every write.
Write(paths) ==
  /\ version' = version + 1
  /\ cr' = [paths |-> paths, version |-> version + 1]

Go(c, to) == pc' = [pc EXCEPT ![c] = to]

InitClient(c) ==
  /\ live[c] = "none"
  /\ live' = [live EXCEPT ![c] = "up"]
  /\ UNCHANGED <<readerVars, deleter, cr, version, msgs, overtaken>>

\* The reader gets a message that unpacks and names a valid channel; for any
\* other it does nothing.  It reads through a buffer and does not look at done:
\* what the buffer holds is handled after a teardown too.
Receive(c, m) ==
  /\ live[c] # "none" /\ pc[c] = "idle"
  /\ msgs < MaxMsgs
  /\ msgs' = msgs + 1
  /\ req' = [req EXCEPT ![c] = m]
  /\ answered' = [answered EXCEPT ![c] = FALSE]
  /\ Go(c, IF m.type = "CLEAR" THEN "clearGet" ELSE "pod")
  /\ UNCHANGED <<live, podPathMap, crName, got, deleter, cr, version, overtaken>>

\* MSG_CLEAR: Get, and if there is one Delete.
ClearGet(c) ==
  /\ pc[c] = "clearGet"
  /\ Go(c, IF cr = NoCR THEN "idle" ELSE "clearDelete")
  /\ UNCHANGED <<live, req, podPathMap, crName, got, answered, deleter, cr, version,
                 msgs, overtaken>>

ClearDelete(c) ==
  /\ pc[c] = "clearDelete"
  /\ cr' = NoCR
  /\ Go(c, "idle")
  /\ UNCHANGED <<live, req, podPathMap, crName, got, answered, deleter, version,
                 msgs, overtaken>>

\* Fault: the mapping is keyed by the pod's path, not the node's.
RemapPodPath(m, map) ==
  IF m.type = "WATCH" THEN map \cup m.keys ELSE map \ m.keys

\* The mapping that a WATCH or UNWATCH request leaves.
Remap(m, map) ==
  LET named == UNION {MapKey[k] : k \in m.keys}
  IN  IF m.type = "WATCH" THEN map \cup named ELSE map \ named

\* Fault: no early return with nothing to watch.
GetPodUnchecked(c) ==
  /\ pc[c] = "pod"
  /\ podPathMap' = [podPathMap EXCEPT ![c] = Remap(req[c], podPathMap[c])]
  /\ Go(c, "get")
  /\ UNCHANGED <<live, req, crName, got, answered, deleter, cr, version, msgs, overtaken>>

\* Get the pod, translate the keys, and give up if nothing is mapped.
GetPod(c) ==
  /\ pc[c] = "pod"
  /\ podPathMap' = [podPathMap EXCEPT ![c] = Remap(req[c], podPathMap[c])]
  /\ IF podPathMap'[c] = {}
     THEN Go(c, "idle") /\ answered' = [answered EXCEPT ![c] = TRUE]
     ELSE Go(c, "get") /\ UNCHANGED answered
  /\ UNCHANGED <<live, req, crName, got, deleter, cr, version, msgs, overtaken>>

\* Fault: CRName is not recorded with the resource that exists.
GetWatcherUnnamed(c) ==
  /\ pc[c] = "get"
  /\ crName' = [crName EXCEPT ![c] = crName[c] \/ cr # NoCR]
  /\ got' = [got EXCEPT ![c] = cr.version]
  /\ Go(c, IF cr = NoCR THEN "create" ELSE "update")
  /\ UNCHANGED <<live, req, podPathMap, answered, deleter, cr, version, msgs, overtaken>>

\* getWatcher's Get; the helper learns the resource's name, found or not.
GetWatcher(c) ==
  /\ pc[c] = "get"
  /\ crName' = [crName EXCEPT ![c] = TRUE]
  /\ got' = [got EXCEPT ![c] = cr.version]
  /\ Go(c, IF cr = NoCR THEN "create" ELSE "update")
  /\ UNCHANGED <<live, req, podPathMap, answered, deleter, cr, version, msgs, overtaken>>

\* Create fails if another connection has created it meanwhile.
Create(c) ==
  /\ pc[c] = "create"
  /\ IF cr = NoCR THEN Write(podPathMap[c]) ELSE UNCHANGED <<cr, version>>
  /\ overtaken' = IF cr = NoCR THEN live[c] = "gone" ELSE overtaken
  /\ answered' = [answered EXCEPT ![c] = cr = NoCR]
  /\ Go(c, "idle")
  /\ UNCHANGED <<live, req, podPathMap, crName, got, deleter, msgs>>

\* Update fails if the version read is not the current one; there is no retry.
Update(c) ==
  /\ pc[c] = "update"
  /\ IF cr.version = got[c] THEN Write(podPathMap[c]) ELSE UNCHANGED <<cr, version>>
  /\ answered' = [answered EXCEPT ![c] = cr.version = got[c]]
  /\ Go(c, "idle")
  /\ UNCHANGED <<live, req, podPathMap, crName, got, deleter, msgs, overtaken>>

\* The next API call fails, and the handler returns its error.  After getWatcher
\* the helper has the name all the same.
ApiError(c) ==
  /\ ApiFaults
  /\ pc[c] \in {"clearGet", "clearDelete", "pod", "get", "create", "update"}
  /\ crName' = [crName EXCEPT ![c] = crName[c] \/ pc[c] = "get"]
  /\ Go(c, "idle")
  /\ UNCHANGED <<live, req, podPathMap, got, answered, deleter, cr, version,
                 msgs, overtaken>>

----------------------------------------------------------------------------
\* Close calls Remove, which looks up the name now and starts the goroutine
\* that deletes; without a name the API server refuses the call.
Remove(c) ==
  /\ live[c] = "up"
  /\ live' = [live EXCEPT ![c] = "gone"]
  /\ deleter' = [deleter EXCEPT ![c] = IF crName[c] THEN "pending" ELSE "done"]

\* The reader finds the connection broken.
ReaderRemove(c) ==
  /\ pc[c] = "idle"
  /\ Remove(c)
  /\ Go(c, "exit")
  /\ UNCHANGED <<req, podPathMap, crName, got, answered, cr, version, msgs, overtaken>>

\* Another goroutine, the writer or the fan-out, tears the connection down,
\* wherever the reader is.
OutsideRemove(c) ==
  /\ Remove(c)
  /\ UNCHANGED <<readerVars, cr, version, msgs, overtaken>>

\* The reader has used up its buffer and finds the connection closed.
ReaderExit(c) ==
  /\ live[c] = "gone" /\ pc[c] = "idle"
  /\ Go(c, "exit")
  /\ UNCHANGED <<live, req, podPathMap, crName, got, answered, deleter, cr, version,
                 msgs, overtaken>>

\* Fault: the goroutine gives the call up.
DeleteGivenUp(c) ==
  /\ deleter[c] = "pending"
  /\ deleter' = [deleter EXCEPT ![c] = "done"]
  /\ UNCHANGED <<live, readerVars, cr, version, msgs, overtaken>>

Delete(c) ==
  /\ deleter[c] = "pending"
  /\ cr' = NoCR
  /\ deleter' = [deleter EXCEPT ![c] = "done"]
  /\ UNCHANGED <<live, readerVars, version, msgs, overtaken>>

\* The call fails or runs into crDeleteTimeout: it is logged and given up.
DeleteFails(c) ==
  /\ ApiFaults
  /\ deleter[c] = "pending"
  /\ deleter' = [deleter EXCEPT ![c] = "failed"]
  /\ UNCHANGED <<live, readerVars, cr, version, msgs, overtaken>>

ProcessStep(c) ==
  ClearGet(c) \/ ClearDelete(c) \/ GetPod(c) \/ GetWatcher(c) \/ Create(c) \/ Update(c)
    \/ ApiError(c)

Next ==
  \E c \in Conns : \/ InitClient(c)
                   \/ \E m \in Requests : Receive(c, m)
                   \/ ProcessStep(c)
                   \/ ReaderRemove(c) \/ OutsideRemove(c) \/ ReaderExit(c)
                   \/ Delete(c) \/ DeleteFails(c)

\* Handlers and delete goroutines run to their end.
Fairness ==
  \A c \in Conns : /\ WF_vars(ProcessStep(c))
                   /\ WF_vars(Delete(c) \/ DeleteFails(c))

Spec == Init /\ [][Next]_vars /\ Fairness

----------------------------------------------------------------------------
\* A resource never asks the daemons to watch nothing: whatever a request
\* removes, and whatever another connection or a failed call leaves, a stored
\* resource has a path.
CRNeverEmpty == cr # NoCR => cr.paths # {}

\* Somebody will delete the resource: a connection that is up and knows its
\* name, or the delete goroutine of one that is gone; only a delete the API
\* server refused leaves it behind.
Owned ==
  \E c \in Conns : crName[c] /\ (live[c] = "up" \/ deleter[c] \in {"pending", "failed"})

\* A resource is only ever orphaned by a handler that creates it for a
\* connection that was torn down before (app.go:50-66, 235; tcpserver.go:91-99):
\* however the connections of one watcher overlap, create, update and clear,
\* one that was created for a connection still up has somebody to delete it.
OrphanOnlyOvertaken == cr # NoCR => Owned \/ overtaken

\* With every client gone, the resource goes too, for good
\* (rust-jfs/docs/fsnotify-proxy.md:318), unless a delete was refused or a
\* teardown overtook the handler that created it.
EventuallyCollected ==
  (\A c \in Conns : live[c] = "gone") ~>
     [](cr = NoCR \/ overtaken \/ \E c \in Conns : deleter[c] = "failed")

\* The only connection that is up, and no request in progress.
Sole(c) == live[c] = "up" /\ pc[c] = "idle" /\ \A d \in Conns \ {c} : live[d] # "up"

\* A client that has reconnected and replayed its watches is registered with
\* them (tcpserver.go:150, rust-jfs/docs/jfswatcher-flow.md:306).
ReplayedWatchesRegistered ==
  \A c \in Conns : Sole(c) /\ answered[c] /\ podPathMap[c] # {} => cr.paths = podPathMap[c]
=============================================================================
