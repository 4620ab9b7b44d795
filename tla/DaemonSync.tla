----------------------------- MODULE DaemonSync -----------------------------
(***************************************************************************)
(* How fsnotify-daemon keeps its node's inotify watches in step with the   *)
(* FSWatcher resources: the controller                                     *)
(* (k8s/pkg/fswatchers/v1alpha1/controller.go: event handlers, work queue, *)
(* one worker) and the app behind it (k8s/cmd/fsnotify-daemon/app/v2/      *)
(* app.go: SyncWatches, and the goroutine that owns the fsnotify watcher). *)
(*                                                                         *)
(* The informer is external: it mirrors the API server in a cache and      *)
(* tells the handlers of each change after the cache has it.  A resource   *)
(* is its set of paths; {} stands for none, as the proxy never stores an   *)
(* empty one (WatchRegistry!CRNeverEmpty).                                 *)
(***************************************************************************)
EXTENDS Naturals, Sequences

CONSTANTS Crs,         \* names of FSWatcher resources
          Paths,       \* node paths
          MaxChanges,  \* bound on the changes of resources
          MaxFaults    \* bound on crashes, watcher failures and retries

ASSUME MaxChangesAssumption == MaxChanges \in Nat
ASSUME MaxFaultsAssumption == MaxFaults \in Nat

VARIABLES
  store,    \* the resources in the API server
  cache,    \* the informer's copy, which the lister reads
  notes,    \* changes the informer has not told the handlers yet
  queue,    \* the work queue
  worker,   \* control state of the worker: "idle", "got" or "add"
  item,     \* the item it has got
  todo,     \* the paths SyncWatches has still to add
  watcher,  \* App.watchers: "nil", "live" or "dead" (its channels closed)
  watched,  \* the paths watched by the current fsnotify watcher
  refused,  \* history: paths fsnotify has refused
  gap,      \* history: no sync has listed since one was dropped or undone
  changes,  \* changes so far
  faults    \* faults so far

clusterVars == <<store, changes>>
informerVars == <<cache, notes>>
workerVars == <<queue, worker, item, todo>>
watchVars == <<watcher, watched, refused, gap>>
vars == <<clusterVars, informerVars, workerVars, watchVars, faults>>

\* enqueueObj: the action, and the paths of the object it carries.  A
\* "TOMBSTONE" is a DELETE with a DeletedFinalStateUnknown for an object, which
\* SyncWatches does not know.
Items == [action : {"ADD", "UPDATE", "DELETE", "TOMBSTONE"}, paths : SUBSET Paths]
Known(i) == i.action # "TOMBSTONE"
AllPaths(crs) == UNION {crs[c] : c \in Crs}

TypeOK ==
  /\ store \in [Crs -> SUBSET Paths]
  /\ cache \in [Crs -> SUBSET Paths]
  /\ notes \in Seq(Items)
  /\ queue \in Seq(Items)
  /\ worker \in {"idle", "got", "add"}
  /\ item \in Items
  /\ todo \in SUBSET Paths /\ (worker # "add" => todo = {})
  /\ watcher \in {"nil", "live", "dead"}
  /\ watched \in SUBSET Paths
  /\ refused \in SUBSET Paths
  /\ gap \in BOOLEAN
  /\ changes \in Nat
  /\ faults \in Nat

NoItem == [action |-> "ADD", paths |-> {}]

\* A daemon that has just started, with nothing listed yet.
Init ==
  /\ store \in [Crs -> SUBSET Paths]
  /\ cache = [c \in Crs |-> {}]
  /\ notes = <<>> /\ queue = <<>>
  /\ worker = "idle" /\ item = NoItem /\ todo = {}
  /\ watcher = "nil" /\ watched = {} /\ refused = {} /\ gap = FALSE
  /\ changes = 0 /\ faults = 0

----------------------------------------------------------------------------
\* The proxies create, update and delete resources.
Change(c, ps) ==
  /\ changes < MaxChanges
  /\ ps # store[c]
  /\ store' = [store EXCEPT ![c] = ps]
  /\ changes' = changes + 1
  /\ UNCHANGED <<informerVars, workerVars, watchVars, faults>>

\* The informer catches up with one resource.  UpdateFunc hands on the old
\* object; diff always sees a difference, the resource version.  A deletion the
\* informer finds out only by listing again comes as a tombstone.
Reflect(c) ==
  /\ cache[c] # store[c]
  /\ cache' = [cache EXCEPT ![c] = store[c]]
  /\ \E action \in IF cache[c] = {} THEN {"ADD"}
                    ELSE IF store[c] = {} THEN {"DELETE", "TOMBSTONE"} ELSE {"UPDATE"} :
       notes' = Append(notes, [action |-> action,
                               paths |-> IF cache[c] = {} THEN store[c] ELSE cache[c]])
  /\ UNCHANGED <<clusterVars, workerVars, watchVars, faults>>

\* handleAddObject, handleUpdateObject, handleDeleteObject.
Enqueue ==
  /\ notes # <<>>
  /\ notes' = Tail(notes)
  /\ queue' = Append(queue, Head(notes))
  /\ UNCHANGED <<clusterVars, cache, worker, item, todo, watchVars, faults>>

----------------------------------------------------------------------------
\* processNextWorkItem.

Get ==
  /\ worker = "idle"
  /\ queue # <<>>
  /\ item' = Head(queue)
  /\ queue' = Tail(queue)
  /\ worker' = "got"
  /\ UNCHANGED <<clusterVars, informerVars, todo, watchVars, faults>>

\* SyncWatches returns nil for an object that is no FSWatcher; whatever was
\* deleted, there is nothing to add.
SyncUnknown ==
  /\ worker = "got" /\ ~Known(item)
  /\ worker' = "idle"
  /\ UNCHANGED <<clusterVars, informerVars, queue, item, todo, watchVars, faults>>

\* SyncWatches without a watcher returns nil, and the item is forgotten.
SyncNil ==
  /\ worker = "got" /\ Known(item)
  /\ watcher = "nil"
  /\ worker' = "idle"
  /\ gap' = TRUE
  /\ UNCHANGED <<clusterVars, informerVars, queue, item, todo, watcher, watched, refused,
                 faults>>

\* Fault: SyncWatches adds the paths of the object it is given.
ListOwn ==
  /\ worker = "got" /\ Known(item)
  /\ watcher # "nil"
  /\ todo' = item.paths
  /\ worker' = "add"
  /\ gap' = FALSE
  /\ UNCHANGED <<clusterVars, informerVars, queue, item, watcher, watched, refused, faults>>

\* It lists every resource, whatever the item says.  The paths are added to
\* whichever watcher is there when their turn comes.
List ==
  /\ worker = "got" /\ Known(item)
  /\ watcher # "nil"
  /\ todo' = AllPaths(cache)
  /\ worker' = "add"
  /\ gap' = (watcher = "dead")
  /\ UNCHANGED <<clusterVars, informerVars, queue, item, watcher, watched, refused, faults>>

\* Fault: the failed item is forgotten.
SyncErrorForgotten ==
  /\ worker = "got" /\ Known(item)
  /\ watcher # "nil"
  /\ faults < MaxFaults
  /\ faults' = faults + 1
  /\ worker' = "idle"
  /\ UNCHANGED <<clusterVars, informerVars, queue, item, todo, watchVars>>

\* The list fails, and the item is queued again.
SyncError ==
  /\ worker = "got" /\ Known(item)
  /\ watcher # "nil"
  /\ faults < MaxFaults
  /\ faults' = faults + 1
  /\ queue' = Append(queue, item)
  /\ worker' = "idle"
  /\ UNCHANGED <<clusterVars, informerVars, item, todo, watchVars>>

Add(p) ==
  /\ worker = "add"
  /\ p \in todo
  /\ watcher = "live"
  /\ watched' = watched \cup {p}
  /\ todo' = todo \ {p}
  /\ UNCHANGED <<clusterVars, informerVars, queue, worker, item, watcher, refused, gap, faults>>

\* Fault: the sync ends at the first path that fails.
AddErrorStops(p) ==
  /\ worker = "add"
  /\ p \in todo
  /\ todo' = todo \ {p}
  /\ refused' = IF watcher = "dead" THEN refused ELSE refused \cup {p}
  /\ worker' = "idle"
  /\ UNCHANGED <<clusterVars, informerVars, queue, item, watcher, watched, gap, faults>>

\* The path cannot be watched, or the watcher is closed: logged, not retried.
AddError(p) ==
  /\ worker = "add"
  /\ p \in todo
  /\ todo' = todo \ {p}
  /\ refused' = IF watcher = "dead" THEN refused ELSE refused \cup {p}
  /\ UNCHANGED <<clusterVars, informerVars, queue, worker, item, watcher, watched, gap, faults>>

SyncDone ==
  /\ worker = "add"
  /\ todo = {}
  /\ worker' = "idle"
  /\ UNCHANGED <<clusterVars, informerVars, queue, item, todo, watchVars, faults>>

----------------------------------------------------------------------------
\* The goroutine of New: a first watcher, and another when one has ended.
\* Nothing tells the controller.
NewWatcher ==
  /\ watcher # "live"
  /\ watcher' = "live"
  /\ watched' = {}
  /\ UNCHANGED <<clusterVars, informerVars, workerVars, refused, gap, faults>>

\* run finds Events or Errors closed and returns.
WatcherDies ==
  /\ watcher = "live"
  /\ faults < MaxFaults
  /\ faults' = faults + 1
  /\ watcher' = "dead"
  /\ watched' = {}
  /\ gap' = TRUE
  /\ UNCHANGED <<clusterVars, informerVars, workerVars, refused>>

\* The daemon crashes (NewWatcher's panic, a node failure) and is restarted.
Crash ==
  /\ faults < MaxFaults
  /\ faults' = faults + 1
  /\ cache' = [c \in Crs |-> {}]
  /\ notes' = <<>> /\ queue' = <<>>
  /\ worker' = "idle" /\ item' = NoItem /\ todo' = {}
  /\ watcher' = "nil" /\ watched' = {} /\ refused' = {} /\ gap' = FALSE
  /\ UNCHANGED clusterVars

WorkerStep == Get \/ SyncUnknown \/ SyncNil \/ List \/ SyncError \/ SyncDone
                \/ \E p \in Paths : Add(p) \/ AddError(p)

Next ==
  \/ \E c \in Crs, ps \in SUBSET Paths : Change(c, ps)
  \/ \E c \in Crs : Reflect(c)
  \/ Enqueue
  \/ WorkerStep
  \/ NewWatcher \/ WatcherDies \/ Crash

\* The informer's watch is live; the worker and New's goroutine run.
Fairness ==
  /\ \A c \in Crs : WF_vars(Reflect(c))
  /\ WF_vars(Enqueue)
  /\ WF_vars(WorkerStep)
  /\ WF_vars(NewWatcher)

Spec == Init /\ [][Next]_vars /\ Fairness

----------------------------------------------------------------------------
\* A sync that will still list or add path p is on its way.
Coming(p) ==
  \/ \E i \in 1..Len(notes) : Known(notes[i])
  \/ \E i \in 1..Len(queue) : Known(queue[i])
  \/ worker = "got" /\ Known(item)
  \/ p \in todo

\* No change is missed: a path the cache holds is watched, or refused by
\* fsnotify, or a sync that covers it is on its way, although changes are
\* coalesced, the UPDATE item carries the old object, a sync works on the list
\* it took earlier, a failed one is retried and a tombstone syncs nothing.
\* Excepted are the gaps after a sync without a watcher or the loss of one.
NoMissedChange ==
  \A p \in AllPaths(cache) : p \in watched \/ p \in refused \/ Coming(p) \/ gap

\* The daemon catches up with the API server, crashes and retries included.
CatchesUp ==
  \A p \in Paths : (p \in AllPaths(store)) ~>
     (p \notin AllPaths(store) \/ p \in watched \cup refused \/ gap)
=============================================================================
