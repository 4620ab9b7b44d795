-------------------------- MODULE DaemonSyncProofs --------------------------
(***************************************************************************)
(* Proofs about module DaemonSync, for any sets of resources and paths and *)
(* any number of changes and faults: its type invariant and                *)
(* NoMissedChange.                                                         *)
(***************************************************************************)
EXTENDS DaemonSync, TLAPS

USE MaxChangesAssumption, MaxFaultsAssumption
    DEF clusterVars, informerVars, workerVars, watchVars

\* The value for "no item" is of the type of the items.
LEMMA NoItemType == NoItem \in Items
BY DEF NoItem, Items

\* A known item put in a queue is there, and all that were there still are.
LEMMA KnownAppend ==
  ASSUME NEW q \in Seq(Items), NEW e \in Items
  PROVE  /\ (\E i \in 1..Len(q) : Known(q[i])) => \E i \in 1..Len(Append(q, e)) : Known(Append(q, e)[i])
         /\ Known(e) => \E i \in 1..Len(Append(q, e)) : Known(Append(q, e)[i])
<1>1. /\ Len(q) \in Nat /\ Len(Append(q, e)) = Len(q) + 1 /\ Append(q, e)[Len(q) + 1] = e
      /\ \A i \in 1..Len(q) : Append(q, e)[i] = q[i]
  OBVIOUS
<1> QED
  BY <1>1

\* A known item in a queue is its head, or stays when the head is taken.
LEMMA KnownTail ==
  ASSUME NEW q \in Seq(Items), q # <<>>, \E i \in 1..Len(q) : Known(q[i]), ~Known(Head(q))
  PROVE  \E i \in 1..Len(Tail(q)) : Known(Tail(q)[i])
<1>1. PICK i \in 1..Len(q) : Known(q[i])
  OBVIOUS
<1>2. Head(q) = q[1] /\ Len(Tail(q)) = Len(q) - 1 /\ Len(q) \in Nat
  OBVIOUS
<1>3. i # 1
  BY <1>1, <1>2
<1>4. i - 1 \in 1..Len(Tail(q)) /\ Tail(q)[i - 1] = q[i]
  BY <1>2, <1>3
<1> QED
  BY <1>1, <1>4

\* Every step of the cluster, the informer, the controller and the watcher
\* goroutine keeps the types.
LEMMA TypeStep == TypeOK /\ [Next]_vars => TypeOK'
<1> SUFFICES ASSUME TypeOK, [Next]_vars
             PROVE  TypeOK'
  OBVIOUS
<1> USE DEF TypeOK
<1>1. ASSUME NEW c \in Crs, NEW ps \in SUBSET Paths, Change(c, ps)
      PROVE  TypeOK'
  BY <1>1 DEF Change
<1>2. ASSUME NEW c \in Crs, Reflect(c)
      PROVE  TypeOK'
  BY <1>2 DEF Reflect, Items
<1>3. CASE Enqueue
  BY <1>3 DEF Enqueue
<1>4. CASE WorkerStep
  <2>1. CASE Get
    BY <2>1 DEF Get
  <2>2. CASE SyncNil \/ SyncUnknown
    BY <2>2 DEF SyncNil, SyncUnknown
  <2>3. CASE List
    BY <2>3 DEF List, AllPaths
  <2>4. CASE SyncError
    BY <2>4 DEF SyncError
  <2>5. CASE SyncDone
    BY <2>5 DEF SyncDone
  <2>6. ASSUME NEW p \in Paths, Add(p) \/ AddError(p)
        PROVE  TypeOK'
    BY <2>6 DEF Add, AddError
  <2> QED
    BY <1>4, <2>1, <2>2, <2>3, <2>4, <2>5, <2>6 DEF WorkerStep
<1>5. CASE NewWatcher
  BY <1>5 DEF NewWatcher
<1>6. CASE WatcherDies
  BY <1>6 DEF WatcherDies
<1>7. CASE Crash
  <2>1. cache' \in [Crs -> SUBSET Paths] /\ notes' \in Seq(Items) /\ queue' \in Seq(Items)
    BY <1>7 DEF Crash
  <2>2. item' \in Items /\ faults' \in Nat /\ changes' \in Nat
    BY <1>7, NoItemType DEF Crash
  <2>3. /\ worker' \in {"idle", "got", "add"} /\ watcher' \in {"nil", "live", "dead"}
        /\ todo' = {} /\ watched' = {} /\ refused' = {} /\ gap' \in BOOLEAN
        /\ store' \in [Crs -> SUBSET Paths]
    BY <1>7 DEF Crash
  <2> QED
    BY <2>1, <2>2, <2>3
<1>8. CASE UNCHANGED vars
  BY <1>8 DEF vars
<1> QED
  BY <1>1, <1>2, <1>3, <1>4, <1>5, <1>6, <1>7, <1>8 DEF Next

\* The types hold at every moment; no paths are left over from a sync that
\* has ended (v2/app.go:115-123).
THEOREM Typing == Spec => []TypeOK
<1>1. Init => TypeOK
  <2> SUFFICES ASSUME Init
               PROVE  TypeOK
    OBVIOUS
  <2>1. cache \in [Crs -> SUBSET Paths] /\ notes \in Seq(Items) /\ queue \in Seq(Items)
    BY DEF Init
  <2> QED
    BY <2>1, NoItemType DEF Init, TypeOK
<1> QED
  BY <1>1, TypeStep, PTL DEF Spec

----------------------------------------------------------------------------
\* Nothing is watched without a live watcher, and a sync that is busy with a
\* dead one is known to leave a gap.
Owned ==
  /\ watcher # "live" => watched = {}
  /\ worker = "add" /\ watcher = "dead" => gap
  /\ worker = "add" => watcher # "nil"

SyncInv == Owned /\ NoMissedChange

\* Every step keeps the promise for every path of the cache.
LEMMA SyncStep == TypeOK /\ SyncInv /\ [Next]_vars => SyncInv'
<1> SUFFICES ASSUME TypeOK, SyncInv, [Next]_vars
             PROVE  SyncInv'
  OBVIOUS
<1> USE DEF TypeOK, SyncInv, Owned, NoMissedChange, Coming
<1>1. ASSUME NEW c \in Crs, NEW ps \in SUBSET Paths, Change(c, ps)
      PROVE  SyncInv'
  BY <1>1 DEF Change, AllPaths
<1>2. ASSUME NEW c \in Crs, Reflect(c)
      PROVE  SyncInv'
  <2> DEFINE actions == IF cache[c] = {} THEN {"ADD"}
                        ELSE IF store[c] = {} THEN {"DELETE", "TOMBSTONE"} ELSE {"UPDATE"}
             paths == IF cache[c] = {} THEN store[c] ELSE cache[c]
  <2>0. /\ \E action \in actions : notes' = Append(notes, [action |-> action, paths |-> paths])
        /\ cache' = [cache EXCEPT ![c] = store[c]]
    BY <1>2 DEF Reflect
  <2>1. PICK e \in Items : notes' = Append(notes, e) /\ (~Known(e) => store[c] = {})
    <3>1. PICK action \in actions : notes' = Append(notes, [action |-> action, paths |-> paths])
      BY <2>0
    <3>2. [action |-> action, paths |-> paths] \in Items
      BY DEF Items
    <3>3. ~Known([action |-> action, paths |-> paths]) => store[c] = {}
      BY DEF Known
    <3> QED
      BY <3>1, <3>2, <3>3
  <2>2. UNCHANGED <<queue, worker, item, todo, watcher, watched, refused, gap>>
    BY <1>2 DEF Reflect
  <2>3. ~Known(e) => AllPaths(cache)' \subseteq AllPaths(cache)
    BY <2>0, <2>1 DEF AllPaths
  <2>4. /\ (\E i \in 1..Len(notes) : Known(notes[i])) => \E i \in 1..Len(notes') : Known(notes'[i])
        /\ Known(e) => \E i \in 1..Len(notes') : Known(notes'[i])
    BY <2>1, KnownAppend
  <2> QED
    BY <2>2, <2>3, <2>4
<1>3. CASE Enqueue
  <2>1. /\ notes # <<>> /\ notes' = Tail(notes) /\ queue' = Append(queue, Head(notes))
        /\ Head(notes) \in Items
    BY <1>3 DEF Enqueue
  <2>2. /\ (\E i \in 1..Len(queue) : Known(queue[i])) => \E i \in 1..Len(queue') : Known(queue'[i])
        /\ Known(Head(notes)) => \E i \in 1..Len(queue') : Known(queue'[i])
    BY <2>1, KnownAppend
  <2>3. (\E i \in 1..Len(notes) : Known(notes[i])) /\ ~Known(Head(notes))
          => \E i \in 1..Len(notes') : Known(notes'[i])
    BY <2>1, KnownTail
  <2>4. UNCHANGED <<cache, worker, item, todo, watcher, watched, refused, gap>>
    BY <1>3 DEF Enqueue
  <2> QED
    BY <2>2, <2>3, <2>4 DEF AllPaths
<1>4. CASE WorkerStep
  <2>1. CASE Get
    <3>1. /\ queue # <<>> /\ queue' = Tail(queue) /\ item' = Head(queue) /\ worker = "idle" /\ worker' = "got"
          /\ UNCHANGED <<cache, notes, todo, watcher, watched, refused, gap>>
      BY <2>1 DEF Get
    <3>2. (\E i \in 1..Len(queue) : Known(queue[i])) /\ ~Known(Head(queue))
            => \E i \in 1..Len(queue') : Known(queue'[i])
      BY <3>1, KnownTail
    <3> QED
      BY <3>1, <3>2 DEF AllPaths
  <2>2. CASE SyncNil \/ SyncUnknown
    BY <2>2 DEF SyncNil, SyncUnknown, AllPaths
  <2>3. CASE List
    BY <2>3 DEF List, AllPaths
  <2>4. CASE SyncError
    <3>1. /\ queue' = Append(queue, item) /\ Known(item) /\ worker' = "idle"
          /\ UNCHANGED <<cache, notes, item, todo, watcher, watched, refused, gap>>
      BY <2>4 DEF SyncError
    <3>2. \E i \in 1..Len(queue') : Known(queue'[i])
      BY <3>1, KnownAppend
    <3> QED
      BY <3>1, <3>2
  <2>5. CASE SyncDone
    BY <2>5 DEF SyncDone, AllPaths
  <2>6. ASSUME NEW p \in Paths, Add(p)
        PROVE  SyncInv'
    BY <2>6 DEF Add, AllPaths
  <2>7. ASSUME NEW p \in Paths, AddError(p)
        PROVE  SyncInv'
    BY <2>7 DEF AddError, AllPaths
  <2> QED
    BY <1>4, <2>1, <2>2, <2>3, <2>4, <2>5, <2>6, <2>7 DEF WorkerStep
<1>5. CASE NewWatcher
  BY <1>5 DEF NewWatcher, AllPaths
<1>6. CASE WatcherDies
  BY <1>6 DEF WatcherDies
<1>7. CASE Crash
  BY <1>7 DEF Crash, AllPaths
<1>8. CASE UNCHANGED vars
  BY <1>8 DEF vars, AllPaths
<1> QED
  BY <1>1, <1>2, <1>3, <1>4, <1>5, <1>6, <1>7, <1>8 DEF Next

\* No change of a resource is missed outside the gaps (controller.go:62-105,
\* v2/app.go:95-123): for any resources, paths and numbers of faults.
THEOREM ChangesCovered == Spec => []NoMissedChange
<1>1. Init => SyncInv
  BY DEF Init, SyncInv, Owned, NoMissedChange, AllPaths
<1> QED
  BY <1>1, Typing, SyncStep, PTL DEF Spec, SyncInv
=============================================================================
