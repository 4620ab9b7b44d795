------------------------ MODULE WriteDebounceProofs ------------------------
(***************************************************************************)
(* Proofs about module WriteDebounce, for any set of names and any number  *)
(* of arms and messages: its type invariant, PendingHasTimer,              *)
(* LatestNotLost and ClosedIsFinal.                                        *)
(***************************************************************************)
EXTENDS WriteDebounce, TLAPS

USE MaxArmsAssumption, MaxMsgsAssumption DEF muVars, threadVars, countVars

----------------------------------------------------------------------------
\* Generations and timers are counted by the arms: no entry has seen more arms
\* than there were, and a timer that was not created yet does nothing.
Counted ==
  /\ \A n \in Names : delayed[n].gen <= arms
  /\ \A t \in Timers : arms < t => pc[t] = "idle"

\* Close leaves no entry behind.
NothingParked == closed => \A n \in Names : delayed[n] = NoEntry

\* What is parked, and what a callback sends, is a snapshot that was armed.
RealSnapshots ==
  /\ \A n \in Names : delayed[n] # NoEntry => delayed[n].event # 0
  /\ \A t \in Timers : pc[t] \in {"translate", "send", "shutdown"} => event[t] # 0

DebounceInv == TypeOK /\ Counted /\ NothingParked /\ RealSnapshots /\ PendingHasTimer

\* Thread 0 is the fan-out goroutine, the others are timers.
LEMMA ThreadFacts ==
  /\ Threads \subseteq Nat /\ 0 \in Threads
  /\ Timers = Threads \ {0}
BY DEF Threads, Timers

\* What the next arm counts stays in range: the arms and the generations.
LEMMA ArmCounts ==
  ASSUME NEW k \in Threads, k # MaxArms, NEW g \in Threads, g <= k
  PROVE  k + 1 \in Timers /\ g + 1 \in Threads /\ g + 1 <= k + 1 /\ g <= k + 1
BY DEF Threads, Timers

\* The value for "not parked" is of the type of the entries.
LEMMA NoEntryType == NoEntry \in Entries
BY ThreadFacts DEF NoEntry, Entries

\* A batch is a sequence of events.
LEMMA BatchType ==
  ASSUME NEW b \in Batches
  PROVE  b \in Seq(Events)
<1>1. ASSUME NEW e \in Events
      PROVE  <<e>> \in Seq(Events)
  OBVIOUS
<1>2. ASSUME NEW e \in Events, NEW f \in Events
      PROVE  <<e, f>> \in Seq(Events)
  OBVIOUS
<1>3. CASE b \in {<<e>> : e \in Events}
  BY <1>1, <1>3
<1>4. CASE b \in {<<e, f>> : e, f \in Events}
  BY <1>2, <1>4
<1> QED
  BY <1>3, <1>4 DEF Batches

\* The next event of a batch has a name, and the rest is a batch.
LEMMA BatchFacts ==
  ASSUME NEW b \in Seq(Events), b # <<>>
  PROVE  Head(b).name \in Names /\ Tail(b) \in Seq(Events)
<1>1. Head(b) \in Events /\ Tail(b) \in Seq(Events)
  OBVIOUS
<1> QED
  BY <1>1 DEF Events

\* Nothing is parked and no timer runs at the start.
LEMMA DebounceInit == Init => DebounceInv
<1> SUFFICES ASSUME Init
             PROVE  DebounceInv
  OBVIOUS
<1>1. TypeOK
  <2>1. delayed \in [Names -> Entries]
    BY NoEntryType DEF Init
  <2>2. batch \in Seq(Events)
    BY DEF Init
  <2>3. pc \in [Threads -> PCs]
    BY DEF Init, PCs
  <2>4. arms \in Threads /\ msgs \in 0..MaxMsgs
    BY ThreadFacts DEF Init
  <2>5. /\ gen \in [Threads -> Threads] /\ event \in [Threads -> Threads]
        /\ latest \in [Names -> Threads] /\ name \in [Threads -> Names]
    BY ThreadFacts DEF Init
  <2> QED
    BY <2>1, <2>2, <2>3, <2>4, <2>5 DEF Init, TypeOK
<1>2. Counted
  BY ThreadFacts DEF Init, Counted, NoEntry
<1>3. NothingParked /\ RealSnapshots /\ PendingHasTimer
  BY ThreadFacts DEF Init, NothingParked, RealSnapshots, PendingHasTimer
<1> QED
  BY <1>1, <1>2, <1>3 DEF DebounceInv

\* sendEvent works on a snapshot that is no longer parked: whatever becomes of
\* it, no entry loses its timer.
LEMMA SendEventStep ==
  ASSUME DebounceInv, NEW t \in Threads, SendEvent(t)
  PROVE  DebounceInv'
<1> USE ThreadFacts DEF DebounceInv, TypeOK
<1>1. /\ pc[t] \in {"translate", "send", "shutdown"}
      /\ pc' \in [Threads -> PCs] /\ \A u \in Threads : u # t => pc'[u] = pc[u]
      /\ pc'[t] \in {"send", "shutdown"} \/ pc'[t] = (IF t = 0 THEN "loop" ELSE "done")
      /\ UNCHANGED <<mu, closed, delayed, mapped, name, gen, event, arms, msgs, latest>>
  BY DEF SendEvent, Unmapped, Translate, SendOk, SendClosed, SendSlow, SendDropped, Return, PCs
<1>2. batch' \in Seq(Events) /\ client' \in {"up", "closing", "down"}
  <2>1. batch' = batch \/ batch' = <<>>
    BY DEF SendEvent, Unmapped, Translate, SendOk, SendClosed, SendSlow, SendDropped, Return
  <2>2. client' = client \/ client' = "closing"
    BY DEF SendEvent, Unmapped, Translate, SendOk, SendClosed, SendSlow, SendDropped, Return
  <2>3. <<>> \in Seq(Events)
    OBVIOUS
  <2> QED
    BY <2>1, <2>2, <2>3
<1>3. settled' \in SUBSET Timers
  <2>1. t # 0 => event[t] \in Timers
    BY <1>1 DEF RealSnapshots
  <2> QED
    BY <2>1 DEF SendEvent, Unmapped, Translate, SendOk, SendClosed, SendSlow, SendDropped, Return
<1>4. TypeOK'
  BY <1>1, <1>2, <1>3
<1>5. Counted'
  BY <1>1 DEF Counted, Entries
<1>6. NothingParked' /\ RealSnapshots'
  BY <1>1 DEF NothingParked, RealSnapshots, Entries
<1>7. PendingHasTimer'
  BY <1>1 DEF PendingHasTimer, Entries
<1> QED
  BY <1>4, <1>5, <1>6, <1>7

\* The arm of name n replaces the entry and its timer by a timer nobody has
\* used yet; every other entry keeps its own.
LEMMA ArmStep ==
  ASSUME DebounceInv, ArmWriteDebounce
  PROVE  DebounceInv'
<1> USE ThreadFacts DEF DebounceInv, TypeOK
<1> DEFINE n == Head(batch).name
           t == arms + 1
           old == delayed[n].timer
<1>1. n \in Names /\ t \in Timers /\ old \in Threads /\ ~closed
  <2>1. n \in Names /\ ~closed /\ arms # MaxArms
    BY BatchFacts DEF ArmWriteDebounce, ArmNext
  <2>2. delayed[n].gen \in Threads /\ delayed[n].gen <= arms /\ old \in Threads
    BY <2>1 DEF Counted, Entries
  <2> QED
    BY <2>1, <2>2, ArmCounts
<1>2. /\ delayed[n].gen + 1 \in Threads /\ delayed[n].gen + 1 <= t
      /\ \A m \in Names : delayed[m].gen <= t
  <2>1. \A m \in Names : delayed[m].gen \in Threads /\ delayed[m].gen <= arms
    BY DEF Counted, Entries
  <2>2. arms # MaxArms
    BY DEF ArmWriteDebounce, ArmNext
  <2> HIDE DEF n
  <2> QED
    BY <1>1, <2>1, <2>2, ArmCounts
<1>3. /\ pc' \in [Threads -> PCs] /\ pc'[t] = "armed"
      /\ \A u \in Threads : u # t /\ u # old => pc'[u] = pc[u]
      /\ old # t => pc'[old] = pc[old] \/ pc'[old] = "stopped"
  BY <1>1 DEF ArmWriteDebounce, ArmNext, Arm, ArmWith, Stop, PCs
<1>4. delayed' = [delayed EXCEPT ![n] = [timer |-> t, event |-> t, gen |-> delayed[n].gen + 1]]
  BY <1>1 DEF ArmWriteDebounce, ArmNext, Arm, ArmWith
<1>5. /\ name' = [name EXCEPT ![t] = n]
      /\ gen' = [gen EXCEPT ![t] = delayed[n].gen + 1]
      /\ latest' = [latest EXCEPT ![n] = t]
      /\ arms' = t /\ batch' = Tail(batch) /\ batch # <<>>
      /\ UNCHANGED <<mu, closed, client, mapped, event, msgs, settled>>
  BY DEF ArmWriteDebounce, ArmNext, Arm, ArmWith
<1>6. TypeOK'
  <2>1. batch' \in Seq(Events)
    BY <1>5
  <2>2. delayed' \in [Names -> Entries]
    BY <1>1, <1>2, <1>4 DEF Entries
  <2> QED
    BY <1>1, <1>2, <1>3, <1>5, <2>1, <2>2
<1>7. Counted'
  <2>1. \A m \in Names : delayed'[m].gen <= arms'
    <3> SUFFICES ASSUME NEW m \in Names
                 PROVE  delayed'[m].gen <= arms'
      OBVIOUS
    <3>1. CASE m = n
      BY <1>2, <1>4, <1>5, <3>1
    <3>2. CASE m # n
      BY <1>2, <1>4, <1>5, <3>2
    <3> QED
      BY <3>1, <3>2
  <2>2. ASSUME NEW u \in Timers, arms' < u
        PROVE  pc'[u] = "idle"
    <3>1. pc[u] = "idle" /\ u # t
      <4>1. arms < u /\ u # t
        BY <1>5, <2>2
      <4> QED
        BY <4>1 DEF Counted
    <3>2. u # old
      <4>1. delayed[n] = NoEntry => old = 0
        BY DEF NoEntry
      <4>2. delayed[n] # NoEntry => pc[old] # "idle"
        BY <1>1 DEF PendingHasTimer
      <4> QED
        BY <3>1, <4>1, <4>2
    <3> QED
      BY <1>3, <3>1, <3>2
  <2> QED
    BY <2>1, <2>2 DEF Counted
<1>8. NothingParked' /\ RealSnapshots'
  <2>1. \A m \in Names : delayed'[m] # NoEntry => delayed'[m].event # 0
    BY <1>1, <1>4 DEF RealSnapshots
  <2>2. \A u \in Timers : pc'[u] \in {"translate", "send", "shutdown"} => event'[u] # 0
    BY <1>1, <1>3, <1>5 DEF RealSnapshots
  <2> QED
    BY <1>1, <1>5, <2>1, <2>2 DEF NothingParked, RealSnapshots
<1>9. PendingHasTimer'
  <2> SUFFICES ASSUME NEW m \in Names, delayed'[m] # NoEntry
               PROVE  LET u == delayed'[m].timer IN
                      /\ u # 0 /\ pc'[u] \in {"armed", "fired", "locked"}
                      /\ name'[u] = m /\ gen'[u] = delayed'[m].gen
    BY DEF PendingHasTimer
  <2>1. CASE m = n
    BY <1>1, <1>3, <1>4, <1>5, <2>1
  <2>2. CASE m # n
    <3> DEFINE u == delayed[m].timer
    <3>1. delayed'[m] = delayed[m]
      BY <1>4, <2>2
    <3>2. /\ u \in Timers /\ pc[u] \in {"armed", "fired", "locked"}
          /\ name[u] = m /\ gen[u] = delayed[m].gen
      BY <3>1 DEF PendingHasTimer, Entries
    <3>3. u # t /\ u # old
      BY <1>1, <2>2, <3>2 DEF PendingHasTimer, Counted, NoEntry
    <3> QED
      BY <1>1, <1>3, <1>5, <3>1, <3>2, <3>3
  <2> QED
    BY <2>1, <2>2
<1> QED
  BY <1>6, <1>7, <1>8, <1>9

\* A callback fires, takes w.mu, finds itself overtaken or takes its entry.
LEMMA FlushStep ==
  ASSUME DebounceInv, NEW t \in Timers,
         Fire(t) \/ FlushLock(t) \/ FlushStale(t) \/ FlushTake(t)
  PROVE  DebounceInv'
<1> USE ThreadFacts DEF DebounceInv, TypeOK
<1>1. CASE Fire(t) \/ FlushLock(t)
  <2>1. TypeOK'
    BY <1>1 DEF Fire, Due, FlushLock, PCs
  <2>2. Counted' /\ NothingParked' /\ RealSnapshots'
    BY <1>1 DEF Fire, Due, FlushLock, Counted, NothingParked, RealSnapshots
  <2>3. PendingHasTimer'
    <3>1. /\ \A u \in Threads : u # t => pc'[u] = pc[u]
          /\ pc'[t] \in {"fired", "locked"}
          /\ UNCHANGED <<delayed, name, gen>>
      BY <1>1 DEF Fire, Due, FlushLock
    <3> QED
      BY <3>1 DEF PendingHasTimer, Entries
  <2> QED
    BY <2>1, <2>2, <2>3
<1>2. CASE FlushStale(t)
  <2>1. TypeOK'
    BY <1>2 DEF FlushStale, PCs
  <2>2. Counted' /\ NothingParked' /\ RealSnapshots'
    BY <1>2 DEF FlushStale, Counted, NothingParked, RealSnapshots
  <2>3. \A n \in Names : delayed[n] # NoEntry => delayed[n].timer # t
    BY <1>2 DEF FlushStale, Current, PendingHasTimer, NothingParked
  <2>4. PendingHasTimer'
    BY <1>2, <2>3 DEF FlushStale, PendingHasTimer, Entries
  <2> QED
    BY <2>1, <2>2, <2>4
<1>3. CASE FlushTake(t)
  <2>1. /\ pc[t] = "locked" /\ Current(t) /\ name[t] \in Names
        /\ event' = [event EXCEPT ![t] = delayed[name[t]].event]
        /\ delayed' = [delayed EXCEPT ![name[t]] = NoEntry]
        /\ mu' = "free" /\ pc' = [pc EXCEPT ![t] = "translate"]
        /\ UNCHANGED <<closed, client, mapped, batch, name, gen, countVars>>
    BY <1>3 DEF FlushTake, TakeThen
  <2>2. TypeOK'
    BY <2>1, NoEntryType DEF PCs, Entries
  <2>3. Counted'
    BY <2>1 DEF Counted, NoEntry
  <2>4. NothingParked' /\ RealSnapshots'
    BY <2>1 DEF NothingParked, RealSnapshots, Current
  <2>5. PendingHasTimer'
    BY <2>1 DEF PendingHasTimer, Entries
  <2> QED
    BY <2>2, <2>3, <2>4, <2>5
<1> QED
  BY <1>1, <1>2, <1>3

\* Close forgets every entry.
LEMMA CloseStepInv ==
  ASSUME DebounceInv, CloseStep
  PROVE  DebounceInv'
<1> USE ThreadFacts DEF DebounceInv, TypeOK
<1>1. CASE CloseLock
  BY <1>1 DEF CloseLock, Counted, NothingParked, RealSnapshots, PendingHasTimer
<1>2. CASE Close
  <2>1. /\ pc' \in [Threads -> PCs]
        /\ \A u \in Threads : pc'[u] = pc[u] \/ (pc[u] = "armed" /\ pc'[u] = "stopped")
    <3> DEFINE Parked(u) == \E n \in Names : delayed[n].timer = u
    <3>1. pc' = [u \in Threads |-> IF pc[u] = "armed" /\ Parked(u) THEN "stopped" ELSE pc[u]]
      BY <1>2 DEF Close
    <3> HIDE DEF Parked
    <3>2. \A u \in Threads : pc'[u] = pc[u] \/ (pc[u] = "armed" /\ pc'[u] = "stopped")
      BY <3>1
    <3> QED
      BY <3>1, <3>2 DEF PCs
  <2>2. /\ delayed' = [n \in Names |-> NoEntry] /\ mu' = "free" /\ client' = "down" /\ closed' = TRUE
        /\ UNCHANGED <<mapped, batch, name, gen, event, countVars>>
    BY <1>2 DEF Close
  <2>3. TypeOK'
    BY <2>1, <2>2, NoEntryType
  <2>4. Counted'
    BY <2>1, <2>2 DEF Counted, NoEntry
  <2>5. NothingParked' /\ RealSnapshots' /\ PendingHasTimer'
    BY <2>1, <2>2 DEF NothingParked, RealSnapshots, PendingHasTimer
  <2> QED
    BY <2>3, <2>4, <2>5
<1> QED
  BY <1>1, <1>2 DEF CloseStep

\* Every step keeps the debounce invariant.
LEMMA DebounceStep == DebounceInv /\ [Next]_vars => DebounceInv'
<1> SUFFICES ASSUME DebounceInv, [Next]_vars
             PROVE  DebounceInv'
  OBVIOUS
<1> USE ThreadFacts DEF DebounceInv, TypeOK, Counted, NothingParked, RealSnapshots, PendingHasTimer
<1>1. ASSUME NEW b \in Batches, WriteMsg(b)
      PROVE  DebounceInv'
  <2>1. b \in Seq(Events)
    BY BatchType
  <2> QED
    BY <1>1, <2>1 DEF WriteMsg, PCs
<1>2. CASE FanStep
  <2>1. CASE WriteMsgEnd
    BY <2>1 DEF WriteMsgEnd, PCs
  <2>2. CASE ArmWriteDebounce
    BY <2>2, ArmStep
  <2>3. CASE ArmClosed
    BY <2>3 DEF ArmClosed
  <2>4. CASE SendNow
    <3>1. Head(batch).name \in Names /\ Tail(batch) \in Seq(Events)
      BY <2>4, BatchFacts DEF SendNow
    <3> QED
      BY <2>4, <3>1 DEF SendNow, PCs
  <2>5. CASE SendEvent(0)
    BY <2>5, SendEventStep
  <2> QED
    BY <1>2, <2>1, <2>2, <2>3, <2>4, <2>5 DEF FanStep
<1>3. ASSUME NEW t \in Timers, TimerStep(t)
      PROVE  DebounceInv'
  BY <1>3, FlushStep, SendEventStep DEF TimerStep
<1>4. CASE ClientFails
  BY <1>4 DEF ClientFails
<1>5. CASE CloseStep
  BY <1>5, CloseStepInv
<1>6. ASSUME NEW n \in Names, Remap(n)
      PROVE  DebounceInv'
  BY <1>6 DEF Remap
<1>7. CASE UNCHANGED vars
  BY <1>7 DEF vars
<1> QED
  BY <1>1, <1>2, <1>3, <1>4, <1>5, <1>6, <1>7 DEF Next

\* The types hold at every moment: a generation never runs past the arms, and
\* what sendEvent settles is a snapshot that was armed (helper.go:116-164).
THEOREM Typing == Spec => []TypeOK
BY DebounceInit, DebounceStep, PTL DEF Spec, DebounceInv

\* A parked WRITE always has a timer that will still flush it
\* (helper.go:116-164): for any names, arms, stops and late callbacks.
THEOREM ParkedHasTimer == Spec => []PendingHasTimer
BY DebounceInit, DebounceStep, PTL DEF Spec, DebounceInv

----------------------------------------------------------------------------
\* The last WRITE of a name is parked, on its way, or dealt with.
OnItsWay(n) ==
  \/ delayed[n].event = latest[n]
  \/ \E t \in Timers : pc[t] \in {"translate", "send", "shutdown"} /\ event[t] = latest[n]
  \/ latest[n] \in settled

\* sendEvent settles the snapshot it was given.
LEMMA SendEventKeepsLatest ==
  ASSUME DebounceInv, NEW n \in Names, OnItsWay(n), NEW u \in Threads, SendEvent(u)
  PROVE  OnItsWay(n)'
<1>1. /\ pc \in [Threads -> PCs]
      /\ UNCHANGED <<delayed, latest, event>> /\ settled \subseteq settled'
      /\ \A t \in Threads : t # u => pc'[t] = pc[t]
      /\ \/ pc'[u] \in {"send", "shutdown"}
         \/ u # 0 => event[u] \in settled'
  BY DEF DebounceInv, TypeOK, SendEvent, Unmapped, Translate, SendOk, SendClosed, SendSlow,
         SendDropped, Return
<1> QED
  BY <1>1, ThreadFacts DEF OnItsWay

\* A callback that takes the entry carries its snapshot on.
LEMMA TakeKeepsLatest ==
  ASSUME DebounceInv, NEW n \in Names, OnItsWay(n), NEW u \in Timers, FlushTake(u)
  PROVE  OnItsWay(n)'
<1>1. /\ pc \in [Threads -> PCs] /\ event \in [Threads -> Threads]
      /\ delayed \in [Names -> Entries] /\ u \in Threads
  BY ThreadFacts DEF DebounceInv, TypeOK
<1>2. /\ UNCHANGED <<latest, settled>> /\ pc[u] = "locked"
      /\ pc' = [pc EXCEPT ![u] = "translate"]
      /\ event' = [event EXCEPT ![u] = delayed[name[u]].event]
      /\ delayed' = [delayed EXCEPT ![name[u]] = NoEntry]
  BY DEF FlushTake, TakeThen
<1>3. CASE delayed[n].event = latest[n]
  <2>1. CASE name[u] = n
    BY <1>1, <1>2, <1>3, <2>1 DEF OnItsWay
  <2>2. CASE name[u] # n
    BY <1>1, <1>2, <1>3, <2>2 DEF OnItsWay
  <2> QED
    BY <2>1, <2>2
<1>4. ASSUME NEW t \in Timers, pc[t] \in {"translate", "send", "shutdown"}, event[t] = latest[n]
      PROVE  OnItsWay(n)'
  <2>1. t # u /\ pc'[t] = pc[t] /\ event'[t] = event[t]
    BY <1>1, <1>2, <1>4, ThreadFacts
  <2> QED
    BY <1>2, <1>4, <2>1 DEF OnItsWay
<1>5. CASE latest[n] \in settled
  BY <1>2, <1>5 DEF OnItsWay
<1> QED
  BY <1>3, <1>4, <1>5 DEF OnItsWay

\* An arm replaces the last WRITE of its name and leaves the others alone.
LEMMA ArmKeepsLatest ==
  ASSUME DebounceInv, NEW n \in Names, latest[n] # 0 => OnItsWay(n), ArmWriteDebounce,
         latest'[n] # 0
  PROVE  OnItsWay(n)'
<1> DEFINE m == Head(batch).name
<1>1. /\ pc \in [Threads -> PCs] /\ delayed \in [Names -> Entries]
      /\ latest \in [Names -> Threads] /\ arms + 1 \in Nat
  BY ThreadFacts DEF DebounceInv, TypeOK
<1>2. /\ UNCHANGED <<event, settled>>
      /\ latest' = [latest EXCEPT ![m] = arms + 1]
      /\ delayed' = [delayed EXCEPT ![m] = [timer |-> arms + 1, event |-> arms + 1,
                                            gen |-> delayed[m].gen + 1]]
  BY DEF ArmWriteDebounce, ArmNext, Arm, ArmWith
<1>3. \A t \in Timers : pc[t] \in {"translate", "send", "shutdown"} => pc'[t] = pc[t]
  <2>1. arms + 1 \in Timers => pc[arms + 1] = "idle"
    BY ThreadFacts DEF DebounceInv, TypeOK, Counted
  <2>2. pc' = [Stop(delayed[m].timer) EXCEPT ![arms + 1] = "armed"]
    BY DEF ArmWriteDebounce, ArmNext, Arm, ArmWith
  <2> QED
    BY <1>1, <2>1, <2>2, ThreadFacts DEF Stop
<1> HIDE DEF m
<1>4. CASE m = n
  BY <1>1, <1>2, <1>4 DEF OnItsWay
<1>5. CASE m # n
  BY <1>1, <1>2, <1>3, <1>5 DEF OnItsWay
<1> QED
  BY <1>4, <1>5

\* Every other step leaves the snapshots where they are.
LEMMA LatestStep == DebounceInv /\ LatestNotLost /\ [Next]_vars => LatestNotLost'
<1> SUFFICES ASSUME DebounceInv, LatestNotLost, [Next]_vars
             PROVE  LatestNotLost'
  OBVIOUS
<1>a. pc \in [Threads -> PCs]
  BY DEF DebounceInv, TypeOK
<1>b. \A n \in Names : latest[n] # 0 => closed \/ OnItsWay(n)
  BY DEF LatestNotLost, OnItsWay
<1>c. SUFFICES ASSUME NEW n \in Names, latest'[n] # 0, ~closed'
               PROVE  OnItsWay(n)'
  BY DEF LatestNotLost, OnItsWay
<1>0. ASSUME UNCHANGED <<closed, delayed, latest, event, settled>>,
             \A t \in Timers : pc[t] \in {"translate", "send", "shutdown"} => pc'[t] = pc[t]
      PROVE  OnItsWay(n)'
  BY <1>0, <1>b, <1>c DEF OnItsWay
<1>1. ASSUME NEW b \in Batches, WriteMsg(b)
      PROVE  OnItsWay(n)'
  BY <1>0, <1>1, <1>a, ThreadFacts DEF WriteMsg
<1>2. CASE FanStep
  <2>1. CASE WriteMsgEnd \/ SendNow
    BY <1>0, <1>a, <2>1, ThreadFacts DEF WriteMsgEnd, SendNow
  <2>2. CASE ArmWriteDebounce
    BY <1>b, <1>c, <2>2, ArmKeepsLatest DEF ArmWriteDebounce
  <2>3. CASE ArmClosed
    BY <1>0, <2>3 DEF ArmClosed
  <2>4. CASE SendEvent(0)
    <3>1. UNCHANGED <<closed, latest>>
      BY <2>4 DEF SendEvent, Unmapped, Translate, SendOk, SendClosed, SendSlow, SendDropped, Return
    <3> QED
      BY <1>b, <1>c, <2>4, <3>1, ThreadFacts, SendEventKeepsLatest
  <2> QED
    BY <1>2, <2>1, <2>2, <2>3, <2>4 DEF FanStep
<1>3. ASSUME NEW t \in Timers, TimerStep(t)
      PROVE  OnItsWay(n)'
  <2>1. CASE Fire(t) \/ FlushLock(t) \/ FlushStale(t)
    BY <1>0, <1>a, <2>1, ThreadFacts DEF Fire, Due, FlushLock, FlushStale
  <2>2. CASE FlushTake(t)
    <3>1. UNCHANGED <<closed, latest>>
      BY <2>2 DEF FlushTake, TakeThen
    <3> QED
      BY <1>b, <1>c, <2>2, <3>1, TakeKeepsLatest
  <2>3. CASE SendEvent(t)
    <3>1. UNCHANGED <<closed, latest>>
      BY <2>3 DEF SendEvent, Unmapped, Translate, SendOk, SendClosed, SendSlow, SendDropped, Return
    <3> QED
      BY <1>b, <1>c, <2>3, <3>1, ThreadFacts, SendEventKeepsLatest
  <2> QED
    BY <1>3, <2>1, <2>2, <2>3 DEF TimerStep
<1>4. CASE ClientFails
  BY <1>0, <1>4 DEF ClientFails
<1>5. CASE CloseStep
  BY <1>0, <1>5, <1>c DEF CloseStep, CloseLock, Close
<1>6. ASSUME NEW m \in Names, Remap(m)
      PROVE  OnItsWay(n)'
  BY <1>0, <1>6 DEF Remap
<1>7. CASE UNCHANGED vars
  BY <1>0, <1>7 DEF vars
<1> QED
  BY <1>1, <1>2, <1>3, <1>4, <1>5, <1>6, <1>7 DEF Next

\* The last WRITE of a name is never lost while the connection is open
\* (helper.go:116-164): for any names and any interleaving of arms and callbacks.
THEOREM LatestKept == Spec => []LatestNotLost
<1>1. Init => LatestNotLost
  BY DEF Init, LatestNotLost
<1> QED
  BY <1>1, DebounceInit, DebounceStep, LatestStep, PTL DEF Spec

----------------------------------------------------------------------------
\* Close is final (helper.go:167-189): a callback that was waiting for w.mu
\* takes nothing, and an arm that was on its way parks nothing.
THEOREM CloseIsFinal == Spec => ClosedIsFinal
<1> DEFINE Final == closed => closed' /\ event' = event /\ \A n \in Names : delayed'[n] = NoEntry
<1>1. DebounceInv /\ [Next]_vars => [Final]_vars
  <2> SUFFICES ASSUME DebounceInv, Next, closed
               PROVE  closed' /\ event' = event /\ \A n \in Names : delayed'[n] = NoEntry
    OBVIOUS
  <2>1. \A n \in Names : delayed[n] = NoEntry
    BY DEF DebounceInv, NothingParked
  <2>2. CASE Close
    BY <2>2 DEF Close
  <2>3. CASE ~Close
    <3>1. ~ArmWriteDebounce /\ \A t \in Timers : ~FlushTake(t)
      BY DEF ArmWriteDebounce, FlushTake, TakeThen, Current
    <3>2. UNCHANGED <<closed, event, delayed>>
      BY <2>3, <3>1 DEF Next, WriteMsg, FanStep, WriteMsgEnd, ArmClosed, SendNow, TimerStep, Fire,
         Due, FlushLock, FlushStale, SendEvent, Unmapped, Translate, SendOk, SendClosed, SendSlow,
         SendDropped, Return, ClientFails, CloseStep, CloseLock, Remap
    <3> QED
      BY <2>1, <3>2
  <2> QED
    BY <2>2, <2>3
<1> QED
  BY <1>1, DebounceInit, DebounceStep, PTL DEF Spec, ClosedIsFinal
=============================================================================
