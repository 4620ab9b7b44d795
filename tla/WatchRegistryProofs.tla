------------------------ MODULE WatchRegistryProofs ------------------------
(***************************************************************************)
(* Proofs about module WatchRegistry, for any number of connections and    *)
(* messages and any path mapping: its type invariant, CRNeverEmpty, and    *)
(* OrphanOnlyOvertaken.                                                    *)
(***************************************************************************)
EXTENDS WatchRegistry, TLAPS

USE MapKeyAssumption, TypesAssumption, SwitchAssumption, MaxMsgsAssumption
    DEF readerVars

\* A request leaves a mapping of node paths.
LEMMA RemapType ==
  ASSUME NEW m \in Requests, NEW map \in SUBSET Paths
  PROVE  Remap(m, map) \in SUBSET Paths
BY DEF Remap, Requests

\* The reader only translates a request it has received.
Asked == \A c \in Conns : pc[c] = "pod" => req[c] \in Requests

\* Every step of the readers and the delete goroutines keeps the types.
LEMMA TypeStep == TypeOK /\ Asked /\ [Next]_vars => TypeOK' /\ Asked'
<1> SUFFICES ASSUME TypeOK, Asked, [Next]_vars
             PROVE  TypeOK' /\ Asked'
  OBVIOUS
<1> USE DEF TypeOK, Asked
<1>1. ASSUME NEW c \in Conns, InitClient(c)
      PROVE  TypeOK' /\ Asked'
  BY <1>1 DEF InitClient
<1>2. ASSUME NEW c \in Conns, NEW m \in Requests, Receive(c, m)
      PROVE  TypeOK' /\ Asked'
  BY <1>2 DEF Receive, Go
<1>3. ASSUME NEW c \in Conns, ProcessStep(c)
      PROVE  TypeOK' /\ Asked'
  <2>1. CASE ClearGet(c)
    BY <2>1 DEF ClearGet, Go
  <2>2. CASE ClearDelete(c)
    BY <2>2 DEF ClearDelete, Go, NoCR
  <2>3. CASE GetPod(c)
    BY <2>3, RemapType DEF GetPod, Go
  <2>4. CASE GetWatcher(c)
    BY <2>4 DEF GetWatcher, Go
  <2>5. CASE Create(c)
    <3>1. overtaken' \in BOOLEAN /\ answered' \in [Conns -> BOOLEAN]
      BY <2>5 DEF Create
    <3> QED
      BY <2>5, <3>1 DEF Create, Go, Write
  <2>6. CASE Update(c)
    BY <2>6 DEF Update, Go, Write
  <2>7. CASE ApiError(c)
    BY <2>7 DEF ApiError, Go
  <2> QED
    BY <1>3, <2>1, <2>2, <2>3, <2>4, <2>5, <2>6, <2>7 DEF ProcessStep
<1>4. ASSUME NEW c \in Conns, ReaderRemove(c) \/ OutsideRemove(c) \/ ReaderExit(c)
      PROVE  TypeOK' /\ Asked'
  BY <1>4 DEF ReaderRemove, OutsideRemove, ReaderExit, Remove, Go
<1>5. ASSUME NEW c \in Conns, Delete(c) \/ DeleteFails(c)
      PROVE  TypeOK' /\ Asked'
  BY <1>5 DEF Delete, DeleteFails, NoCR
<1>6. CASE UNCHANGED vars
  BY <1>6 DEF vars
<1> QED
  BY <1>1, <1>2, <1>3, <1>4, <1>5, <1>6 DEF Next

\* The types hold at every moment, in particular the mapping holds node paths
\* and nothing else (app.go:176-204).
THEOREM Typing == Spec => []TypeOK
<1>1. Init => TypeOK
  <2>1. Init => overtaken \in BOOLEAN
    BY DEF Init
  <2>2. Init => cr \in [paths : SUBSET Paths, version : Nat]
    BY DEF Init, NoCR
  <2> QED
    BY <2>1, <2>2 DEF Init, TypeOK
<1>2. Init => Asked
  BY DEF Init, Asked
<1> QED
  BY <1>1, <1>2, TypeStep, PTL DEF Spec

----------------------------------------------------------------------------
\* A handler that goes on to write the resource has paths to write.
Mapped == \A c \in Conns : pc[c] \in {"get", "create", "update"} => podPathMap[c] # {}

PathInv == Mapped /\ CRNeverEmpty

\* Every step keeps the resource from being empty.
LEMMA PathStep == TypeOK /\ PathInv /\ [Next]_vars => PathInv'
<1> SUFFICES ASSUME TypeOK, PathInv, [Next]_vars
             PROVE  PathInv'
  OBVIOUS
<1> USE DEF TypeOK, PathInv, Mapped, CRNeverEmpty
<1>1. ASSUME NEW c \in Conns, InitClient(c)
      PROVE  PathInv'
  BY <1>1 DEF InitClient
<1>2. ASSUME NEW c \in Conns, NEW m \in Requests, Receive(c, m)
      PROVE  PathInv'
  BY <1>2 DEF Receive, Go
<1>3. ASSUME NEW c \in Conns, ProcessStep(c)
      PROVE  PathInv'
  <2>1. CASE ClearGet(c)
    BY <2>1 DEF ClearGet, Go
  <2>2. CASE ClearDelete(c)
    BY <2>2 DEF ClearDelete, Go
  <2>3. CASE GetPod(c)
    BY <2>3 DEF GetPod, Go
  <2>4. CASE GetWatcher(c)
    BY <2>4 DEF GetWatcher, Go
  <2>5. CASE Create(c)
    BY <2>5 DEF Create, Go, Write
  <2>6. CASE Update(c)
    BY <2>6 DEF Update, Go, Write
  <2>7. CASE ApiError(c)
    BY <2>7 DEF ApiError, Go
  <2> QED
    BY <1>3, <2>1, <2>2, <2>3, <2>4, <2>5, <2>6, <2>7 DEF ProcessStep
<1>4. ASSUME NEW c \in Conns, ReaderRemove(c) \/ OutsideRemove(c) \/ ReaderExit(c)
      PROVE  PathInv'
  BY <1>4 DEF ReaderRemove, OutsideRemove, ReaderExit, Remove, Go
<1>5. ASSUME NEW c \in Conns, Delete(c) \/ DeleteFails(c)
      PROVE  PathInv'
  BY <1>5 DEF Delete, DeleteFails
<1>6. CASE UNCHANGED vars
  BY <1>6 DEF vars
<1> QED
  BY <1>1, <1>2, <1>3, <1>4, <1>5, <1>6 DEF Next

\* No stored resource is empty (app.go:205-246), with any number of
\* connections, API failures and lost update races.
THEOREM ResourceHasPaths == Spec => []CRNeverEmpty
<1>1. Init => PathInv
  BY DEF Init, PathInv, Mapped, CRNeverEmpty
<1> QED
  BY <1>1, Typing, PathStep, PTL DEF Spec, PathInv

----------------------------------------------------------------------------
\* A handler that writes the resource has recorded its name first, and has a
\* connection that is up or has been.
Named ==
  \A c \in Conns :
    /\ pc[c] \in {"create", "update"} => crName[c]
    /\ pc[c] \in {"pod", "get", "create"} => live[c] # "none"

\* Version 0 is the absent resource's, which no handler has read to update it.
Versioned ==
  /\ cr # NoCR => cr.version # 0
  /\ \A c \in Conns : pc[c] = "update" => got[c] # 0

OwnerInv == Named /\ Versioned /\ OrphanOnlyOvertaken

\* Every step leaves a resource that is there with an owner.
LEMMA OwnerStep == TypeOK /\ OwnerInv /\ [Next]_vars => OwnerInv'
<1> SUFFICES ASSUME TypeOK, OwnerInv, [Next]_vars
             PROVE  OwnerInv'
  OBVIOUS
<1> USE DEF TypeOK, OwnerInv, Named, Versioned, OrphanOnlyOvertaken, Owned
<1>1. ASSUME NEW c \in Conns, InitClient(c)
      PROVE  OwnerInv'
  BY <1>1 DEF InitClient
<1>2. ASSUME NEW c \in Conns, NEW m \in Requests, Receive(c, m)
      PROVE  OwnerInv'
  BY <1>2 DEF Receive, Go
<1>3. ASSUME NEW c \in Conns, ProcessStep(c)
      PROVE  OwnerInv'
  <2>1. CASE ClearGet(c)
    BY <2>1 DEF ClearGet, Go
  <2>2. CASE ClearDelete(c)
    BY <2>2 DEF ClearDelete, Go
  <2>3. CASE GetPod(c)
    BY <2>3 DEF GetPod, Go
  <2>4. CASE GetWatcher(c)
    BY <2>4 DEF GetWatcher, Go
  <2>5. CASE Create(c)
    BY <2>5 DEF Create, Go, Write, NoCR
  <2>6. CASE Update(c)
    BY <2>6 DEF Update, Go, Write, NoCR
  <2>7. CASE ApiError(c)
    BY <2>7 DEF ApiError, Go
  <2> QED
    BY <1>3, <2>1, <2>2, <2>3, <2>4, <2>5, <2>6, <2>7 DEF ProcessStep
<1>4. ASSUME NEW c \in Conns, ReaderRemove(c) \/ OutsideRemove(c) \/ ReaderExit(c)
      PROVE  OwnerInv'
  BY <1>4 DEF ReaderRemove, OutsideRemove, ReaderExit, Remove, Go
<1>5. ASSUME NEW c \in Conns, Delete(c) \/ DeleteFails(c)
      PROVE  OwnerInv'
  BY <1>5 DEF Delete, DeleteFails
<1>6. CASE UNCHANGED vars
  BY <1>6 DEF vars
<1> QED
  BY <1>1, <1>2, <1>3, <1>4, <1>5, <1>6 DEF Next

\* Whatever the connections of one watcher do, and whoever tears them down, a
\* resource that is there has somebody to delete it (app.go:50-66), unless the
\* connection it was created for had been torn down before.
THEOREM ResourceHasOwner == Spec => []OrphanOnlyOvertaken
<1>1. Init => OwnerInv
  BY DEF Init, OwnerInv, Named, Versioned, OrphanOnlyOvertaken
<1>2. OwnerInv => OrphanOnlyOvertaken
  BY DEF OwnerInv
<1> QED
  BY <1>1, <1>2, OwnerStep, Typing, PTL DEF Spec
=============================================================================
